---- MODULE Spec2Model ----
(***************************************************************************)
(* A model of the screen-edge docking controller (AppBarWin) of the        *)
(* ChatGPT sidebar, of the hosting MainWindow that drives it, and of the   *)
(* window search and capture functions of features/screenshot.py.          *)
(*                                                                         *)
(* Rectangles are 4-tuples <<left, top, right, bottom>>, as the Python     *)
(* tuples and the RECT structure of the source.                            *)
(***************************************************************************)
EXTENDS Integers, Sequences, FiniteSets, TLC

VARIABLES
    appbar,          \* the AppBarWin object (its _registered, _edge, _width), or None
    winRect,         \* the rectangle of the hosting window, as GetWindowRect reports it
    monitor,         \* the rectangle of the monitor the window is on (rcMonitor)
    monMode,         \* which branch of _get_monitor_rect answers: "win32", "qt", "default"
    shellRegistered, \* whether the shell's AppBar registry holds the window
    msgs,            \* the SHAppBarMessage calls of the most recent operation, in order
    proposed,        \* the rectangle the most recent operation sent with ABM_QUERYPOS
    queried,         \* the rectangle the shell handed back from that ABM_QUERYPOS
    applied,         \* the rectangle it sent with ABM_SETPOS and applied by MoveWindow
    lastOp,          \* the most recent operation
    lastArgs,        \* the arguments of the dock call that was the most recent
                     \* operation to act on the bar or the display, None otherwise
    ret,             \* the value the most recent get_opposite_work_area call returned
    \* find_visible_window_in_rect: its arguments, the desktop it sees, its result
    work_rect,       \* the rectangle searched
    excluded_hwnds,  \* the handles excluded
    windows,         \* handle -> [visible, rect]: the top-level windows
    fg,              \* GetForegroundWindow(): a handle or 0
    atpt,            \* the top-level window at the rectangle's centre: a handle or 0
    findPc,          \* "call" before the call, "return" after it
    found,           \* the handle returned
    \* capture_window_to_qimage: its position, the target, what it holds and returns
    capPc,           \* "call", "rect", "acquired", "rendered", "extracted", "cleaned", "return"
    capRect,         \* the rectangle GetWindowRect reports for the target window
    capHeld,         \* the GDI resources acquired and not yet released
    capPrintOk,      \* whether PrintWindow succeeded
    capDibOk,        \* whether GetDIBits copied the pixels
    capRaised,       \* whether an exception reached the except clause
    capResult,       \* "None" or "image" once returned, "raise" when an
                     \* exception that is not an Exception left the function
    \* MainWindow, its settings store and its screen
    cfgWidthPercent, \* the stored default_width_percent
    screenWidth,     \* the width of the primary screen's available geometry
    is_docked,       \* MainWindow.is_docked
    edge_str,        \* MainWindow.edge_str
    desired_width,   \* MainWindow.desired_width
    enforce_fixed_width, \* MainWindow._enforce_fixed_width
    startup,         \* the singleShot(0) of __init__ still to fire, or "done"
    qtGeometry,      \* the (x, y, w, h) of the last setGeometry call, or None
    shown,           \* whether show() has been called
    updatesEnabled,  \* the widget's updatesEnabled property
    maximized,       \* isMaximized()
    stack,           \* the handlers waiting in QApplication.processEvents(), innermost last
    handler,         \* the handler that ran most recently
    raised,          \* the exception that ended it, or "" when it returned
    closed,          \* whether closeEvent has run
    engineState,     \* _init_web_engine: "pending", "running" or "done"
    loadConnected,   \* whether loadFinished is connected to _on_page_load_finished
    pendingEnforce,  \* the single-shot timers for _enforce_appbar_size still to fire
    \* MainWindow.on_screenshot_to_chat: the most recent request
    shotPc,          \* "idle", "capturing" (inside the call of line 317) or "done"
    hidden,          \* whether hide_window has hidden the window and nothing has shown it
    shotCalls,       \* the hide_window and show_window calls of the request, in order
    toast,           \* the toast the request showed, "" when it showed none
    encoded,         \* whether the request encoded an image (qimage_to_png_base64)
    pasted,          \* whether the request handed the paste script to the web engine
    \* _intersect_rects: a call of it
    rectA,           \* its first argument
    rectB,           \* its second argument
    isectPc,         \* "call" before the call, "return" after it
    isectRet,        \* the value returned
    \* MainWindow's toast and the paste script
    toastLabel,      \* MainWindow._toast_label: the label's message, or None
    toastTimer,      \* the interval _toast_timer runs with, 0 when it is not active
    lastFailure,     \* the failure the handler that changed the toast last ended
                     \* on, "" when it ended on none
    pastePending,    \* the runJavaScript callbacks that are still to be called
    scriptRuns,      \* the times the paste script was evaluated for the last request
    \* app.main
    argWidth,        \* args.width: the value of --width, DEFAULT_WIDTH when not given
    \* main of the single-file program, started with --native-app
    dockPending,     \* whether a single-shot timer for dock_existing is pending
    dockAttempts,    \* the calls of dock_existing made, counted up to MaxAttempts
    chatgptWindow,   \* the window find_chatgpt_hwnd finds: a handle or 0
    chatgpt_hwnd,    \* bar.chatgpt_hwnd: a handle, 0 before the window was found
    chatgptRect      \* the rectangle of the ChatGPT window, None when there is none

barVars == <<appbar, winRect, monitor, monMode, shellRegistered, msgs,
             proposed, queried, applied, lastOp, lastArgs, ret>>

findVars == <<work_rect, excluded_hwnds, windows, fg, atpt, findPc, found>>

capVars == <<capPc, capRect, capHeld, capPrintOk, capDibOk, capRaised, capResult>>

winVars == <<cfgWidthPercent, screenWidth, is_docked, edge_str, desired_width,
             enforce_fixed_width, startup, qtGeometry, shown, updatesEnabled,
             maximized, stack, handler, raised, closed, engineState, loadConnected,
             pendingEnforce>>

shotVars == <<shotPc, hidden, shotCalls, toast, encoded, pasted>>

isectVars == <<rectA, rectB, isectPc, isectRet>>

toastVars == <<toastLabel, toastTimer, lastFailure, pastePending, scriptRuns>>

appVars == <<argWidth>>

nativeVars == <<dockPending, dockAttempts, chatgptWindow, chatgpt_hwnd, chatgptRect>>

vars == <<barVars, findVars, capVars, winVars, shotVars, isectVars, toastVars, appVars, nativeVars>>

\* Python's None, for a rectangle, a tuple or an Optional object that is absent;
\* an object that is present is the one-element tuple holding it.
None == <<>>
Some(x) == <<x>>
The(o) == o[1]

\* ------------------------------------------------------------------ bounds

\* Side of the small monitors of the model, in pixels.
MaxW == 4
MaxH == 3

\* Number of top-level windows on the desktop that is searched.
NumWindows == 3

\* Largest coordinate of the rectangles _intersect_rects is called with.
MaxCoord == 3

\* Paste scripts whose callbacks may be outstanding at once.
MaxPending == 2

\* Calls of dock_existing that are counted.
MaxAttempts == 4

\* Handlers that may wait in nested QApplication.processEvents() calls at once.
MaxNest == 2

\* Single-shot timers for _enforce_appbar_size that may be pending at once.
MaxTimers == 2

\* ------------------------------------------------------------- constants

LEFT == 0
TOP == 1
RIGHT == 2
BOTTOM == 3

DEFAULT_INIT_WIDTH == 420

\* constants.DEFAULT_WIDTH, the default of --width
DEFAULT_WIDTH == 420

\* The rectangle _get_monitor_rect returns when every lookup fails.
DefaultMonitorRect == <<0, 0, 1920, 1080>>

\* ------------------------------------------------------------ environment

\* The monitors of the model: the 1920x1080 display of the spec's end-to-end
\* case, a small one at the origin and a small one left of and below the origin.
Monitors == { <<0, 0, 1920, 1080>>,
              <<0, 0, MaxW, MaxH>>,
              <<0 - MaxW, 1, 0, MaxH + 1>> }

MonModes == {"win32", "qt", "default"}

\* The widths dock is called with.
Widths == (1..MaxW) \cup {400}

\* The edge strings dock is called with.
EdgeStrings == {"left", "right", "LEFT", "top"}

\* str.lower() on the edge strings of the model.
Lower(s) ==
    CASE s = "LEFT" -> "left"
      [] s = "RIGHT" -> "right"
      [] OTHER -> s

Width(r) == r[3] - r[1]
Height(r) == r[4] - r[2]

\* What the shell may hand back from ABM_QUERYPOS for a proposed rectangle:
\* the proposal itself, or the proposal moved sideways past another AppBar
\* and/or cut at the top or the bottom to the work area.
QueryPosReplies(p) ==
    { <<p[1] + dx, p[2] + dy, p[3] + dx, p[4] - dy>> : dx \in {0, 1}, dy \in {0, 1} }

\* MoveWindow(hwnd, x, y, w, h, True): the window's rectangle afterwards.
MoveWindow(x, y, w, h) == <<x, y, x + w, y + h>>

\* ----------------------------------------------------------- AppBarWin

\* AppBarWin.__init__
AppBarWin_init == [registered |-> FALSE, edge |-> LEFT, width |-> DEFAULT_INIT_WIDTH]

\* AppBarWin.is_docked()
AppBarWin_is_docked(ab) == ab.registered

\* QRect.right() and QRect.bottom() of a screen whose geometry covers rectangle r:
\* Qt's right() is left() + width() - 1, bottom() is top() + height() - 1.
QtGeometryRect(r) == <<r[1], r[2], r[1] + Width(r) - 1, r[2] + Height(r) - 1>>

\* _get_monitor_rect without the Qt fallback of lines 159-164: when the Win32
\* lookup fails it returns the default rectangle at once.
get_monitor_rect_noQtFallback ==
    IF monMode = "win32" THEN monitor
    ELSE DefaultMonitorRect

\* AppBarWin._get_monitor_rect: the rectangle of the monitor when
\* MonitorFromWindow and GetMonitorInfoW succeed ("win32"), else the one built
\* from the primary screen's geometry ("qt"), else, when that raised an
\* Exception (no primary screen), the default one ("default").
get_monitor_rect ==
    IF monMode = "win32" THEN monitor
    ELSE IF monMode = "qt" THEN QtGeometryRect(monitor)
    ELSE DefaultMonitorRect

\* The rectangle _perform_dock proposes to ABM_QUERYPOS.
ProposeRect(e, w, rect) ==
    LET rc0 == rect
        rc1 == IF e = LEFT
               THEN [rc0 EXCEPT ![1] = rect[1], ![3] = rect[1] + w]
               ELSE [rc0 EXCEPT ![1] = rect[3] - w, ![3] = rect[3]]
    IN  [rc1 EXCEPT ![2] = rect[2], ![4] = rect[4]]

\* EnforceRect without lines 200-210: the shell's rectangle is taken as it is.
EnforceRect_trustShell(e, w, rect, q) == q

\* EnforceRect without lines 208-210: the shell's top and bottom are kept.
EnforceRect_keepShellHeight(e, w, rect, q) ==
    IF e = LEFT
    THEN [q EXCEPT ![1] = rect[1], ![3] = rect[1] + w]
    ELSE [q EXCEPT ![1] = rect[3] - w, ![3] = rect[3]]

\* What _perform_dock makes of the rectangle q the shell handed back.
EnforceRect(e, w, rect, q) ==
    LET rc1 == IF e = LEFT
               THEN [q EXCEPT ![1] = rect[1], ![3] = rect[1] + w]
               ELSE [q EXCEPT ![1] = rect[3] - w, ![3] = rect[3]]
    IN  [rc1 EXCEPT ![2] = rect[2], ![4] = rect[4]]

\* AppBarWin._perform_dock on an AppBarWin ab, after the messages sent sent.
perform_dock(ab, sent) ==
    LET rect == get_monitor_rect
        p == ProposeRect(ab.edge, ab.width, rect)
    IN  \E q \in QueryPosReplies(p) :
            LET rc == EnforceRect(ab.edge, ab.width, rect, q)
            IN  /\ proposed' = p
                /\ queried' = q
                /\ applied' = rc
                /\ msgs' = sent \o <<"QUERYPOS", "SETPOS">>
                /\ winRect' = MoveWindow(rc[1], rc[2], rc[3] - rc[1], rc[4] - rc[2])

\* The edge constant dock stores for an edge string (lines 101-107).
EdgeOf(edge) ==
    IF Lower(edge) = "left" THEN LEFT
    ELSE IF Lower(edge) = "right" THEN RIGHT
    ELSE LEFT

\* No geometry was computed by the operation.
NoGeometry ==
    /\ proposed' = None
    /\ queried' = None
    /\ applied' = None

\* AppBarWin.dock(edge, width): the object afterwards.
dock_obj(ab, edge, width) ==
    [ab EXCEPT !.edge = EdgeOf(edge), !.width = width, !.registered = TRUE]

\* What the shell's registry holds after ABM_NEW: the call registers the
\* window, or fails (it returns FALSE) and leaves the registry as it was.
AbmNewOutcomes == {TRUE, shellRegistered}

\* dock without the test of line 112: it registers on every call.
dock_os_alwaysRegisters(ab, edge, width, sent) ==
    LET ab1 == [ab EXCEPT !.edge = EdgeOf(edge), !.width = width]
    IN  /\ shellRegistered' \in AbmNewOutcomes
        /\ perform_dock(ab1, sent \o <<"NEW">>)

\* AppBarWin.dock(edge, width) on the object ab, after the messages sent:
\* what it sends to the shell and does to the window. The value ABM_NEW
\* returns is not looked at (line 117).
dock_os(ab, edge, width, sent) ==
    LET ab1 == [ab EXCEPT !.edge = EdgeOf(edge), !.width = width]
    IN  IF ~ab1.registered
        THEN /\ shellRegistered' \in AbmNewOutcomes
             /\ perform_dock(ab1, sent \o <<"NEW">>)
        ELSE /\ shellRegistered' = shellRegistered
             /\ perform_dock(ab1, sent)

\* AppBarWin.undock(): the object afterwards.
undock_obj(ab) ==
    IF ab.registered THEN [ab EXCEPT !.registered = FALSE] ELSE ab

\* undock without the test of line 126: it sends ABM_REMOVE on every call.
undock_os_alwaysRemoves(ab, sent) ==
    /\ msgs' = sent \o <<"REMOVE">>
    /\ shellRegistered' = FALSE

\* AppBarWin.undock() on the object ab: what it sends to the shell.
undock_os(ab, sent) ==
    IF ab.registered
    THEN /\ msgs' = sent \o <<"REMOVE">>
         /\ shellRegistered' = FALSE
    ELSE /\ msgs' = sent
         /\ shellRegistered' = shellRegistered

\* reposition calling dock's registration before the geometry.
reposition_os_reregisters(ab, sent) ==
    IF ab.registered
    THEN /\ perform_dock(ab, sent \o <<"NEW">>)
         /\ shellRegistered' = TRUE
    ELSE /\ msgs' = sent
         /\ NoGeometry
         /\ UNCHANGED <<winRect, shellRegistered>>

\* AppBarWin.reposition() on the object ab, which it leaves as it is.
reposition_os(ab, sent) ==
    IF ab.registered
    THEN /\ perform_dock(ab, sent)
         /\ UNCHANGED shellRegistered
    ELSE /\ msgs' = sent
         /\ NoGeometry
         /\ UNCHANGED <<winRect, shellRegistered>>

\* get_opposite_work_area with the two branches of lines 238-243 exchanged.
OppositeWorkArea_sameSide(ab) ==
    LET mon == get_monitor_rect
        r == winRect
    IN  IF ab.edge = LEFT
        THEN <<mon[1], mon[2], r[1], mon[4]>>
        ELSE <<r[3], mon[2], mon[3], mon[4]>>

\* The value AppBarWin.get_opposite_work_area() returns on the object ab.
OppositeWorkArea(ab) ==
    LET mon == get_monitor_rect
        r == winRect
    IN  IF ab.edge = LEFT
        THEN <<r[3], mon[2], mon[3], mon[4]>>
        ELSE <<mon[1], mon[2], r[1], mon[4]>>

\* ------------------------------------- the controller, called directly

\* A call of AppBarWin.dock(edge, width)
dock(edge, width) ==
    /\ appbar # None
    /\ appbar' = Some(dock_obj(The(appbar), edge, width))
    /\ dock_os(The(appbar), edge, width, <<>>)
    /\ lastOp' = "dock"
    /\ lastArgs' = <<edge, width>>
    /\ ret' = None
    /\ UNCHANGED <<monitor, monMode>>
    /\ UNCHANGED <<findVars, capVars, winVars, shotVars, isectVars, toastVars, appVars, nativeVars>>

\* A call of AppBarWin.undock()
undock ==
    /\ appbar # None
    /\ appbar' = Some(undock_obj(The(appbar)))
    /\ undock_os(The(appbar), <<>>)
    /\ NoGeometry
    /\ lastOp' = "undock"
    /\ lastArgs' = None
    /\ ret' = None
    /\ UNCHANGED <<winRect, monitor, monMode>>
    /\ UNCHANGED <<findVars, capVars, winVars, shotVars, isectVars, toastVars, appVars, nativeVars>>

\* A call of AppBarWin.reposition()
reposition ==
    /\ appbar # None
    /\ reposition_os(The(appbar), <<>>)
    /\ lastOp' = "reposition"
    /\ lastArgs' = None
    /\ ret' = None
    /\ UNCHANGED <<appbar, monitor, monMode>>
    /\ UNCHANGED <<findVars, capVars, winVars, shotVars, isectVars, toastVars, appVars, nativeVars>>

\* A call of AppBarWin.get_opposite_work_area()
get_opposite_work_area ==
    /\ appbar # None
    /\ lastOp # "get_opposite_work_area"
    /\ ret' = OppositeWorkArea(The(appbar))
    /\ lastOp' = "get_opposite_work_area"
    /\ UNCHANGED <<appbar, winRect, monitor, monMode, shellRegistered, msgs,
                   proposed, queried, applied, lastArgs>>
    /\ UNCHANGED <<findVars, capVars, winVars, shotVars, isectVars, toastVars, appVars, nativeVars>>

\* The display configuration changes (resolution, monitor, failing lookups).
MonitorChange ==
    /\ \E m \in Monitors, mode \in MonModes :
          /\ <<m, mode>> # <<monitor, monMode>>
          /\ monitor' = m
          /\ monMode' = mode
    /\ lastOp' = "monitor_change"
    /\ lastArgs' = None
    /\ ret' = None
    /\ msgs' = <<>>
    /\ NoGeometry
    /\ UNCHANGED <<appbar, winRect, shellRegistered>>
    /\ UNCHANGED <<findVars, capVars, winVars, shotVars, isectVars, toastVars, appVars, nativeVars>>

\* ------------------------------------------- features/screenshot.py

\* The handles of the top-level windows, in EnumWindows' front-to-back order.
Handles == 1..NumWindows
EnumOrder == [i \in 1..NumWindows |-> i]

\* The rectangles a window of the model may have, around the searched
\* rectangles: overlapping them, apart from them, sharing only an edge with
\* SearchRectA, and without area.
WindowRects == { <<1, 1, 3, 3>>, <<5, 0, 7, 2>>, <<4, 0, 6, 4>>, <<2, 2, 2, 3>> }
SearchRectA == <<0, 0, 4, 4>>
SearchRectB == <<2, 0, 6, 4>>

Max(a, b) == IF a >= b THEN a ELSE b
Min(a, b) == IF a <= b THEN a ELSE b

\* _intersect_rects with >= for > in line 103: rectangles that only touch
\* are given an intersection.
intersect_rects_closed(a, b) ==
    LET x1 == Max(a[1], b[1])
        y1 == Max(a[2], b[2])
        x2 == Min(a[3], b[3])
        y2 == Min(a[4], b[4])
    IN  IF x2 >= x1 /\ y2 >= y1 THEN <<x1, y1, x2, y2>> ELSE None

\* _intersect_rects(a, b): the intersection rectangle, or None
intersect_rects(a, b) ==
    LET x1 == Max(a[1], b[1])
        y1 == Max(a[2], b[2])
        x2 == Min(a[3], b[3])
        y2 == Min(a[4], b[4])
    IN  IF x2 > x1 /\ y2 > y1 THEN <<x1, y1, x2, y2>> ELSE None

\* The rectangles _intersect_rects is called with: those GetWindowRect and
\* get_opposite_work_area can yield on a small desktop, the ones without
\* width or height (a collapsed window, a bar as wide as the monitor) included.
IsectRects ==
    { q \in (0..MaxCoord) \X (0..MaxCoord) \X (0..MaxCoord) \X (0..MaxCoord) :
          q[1] <= q[3] /\ q[2] <= q[4] }

\* A call _intersect_rects(rectA, rectB)
intersect_rects_call ==
    /\ isectPc = "call"
    /\ isectRet' = intersect_rects(rectA, rectB)
    /\ isectPc' = "return"
    /\ UNCHANGED <<rectA, rectB>>
    /\ UNCHANGED <<barVars, findVars, capVars, winVars, shotVars, toastVars, appVars, nativeVars>>

\* _get_window_rect(hwnd) and IsWindowVisible(hwnd) on the desktop of the model
get_window_rect(hwnd) == windows[hwnd].rect
IsWindowVisible(hwnd) == windows[hwnd].visible

\* The test find_visible_window_in_rect makes of the foreground window and of
\* the window at the centre point (lines 136-139 and 145-148).
Candidate(h) ==
    /\ h # 0
    /\ h \notin excluded_hwnds
    /\ IsWindowVisible(h)
    /\ intersect_rects(get_window_rect(h), work_rect) # None

\* _enum_cb without the visibility test of lines 160-161.
enum_cb_noVisibleTest(fnd, hwnd) ==
    IF fnd # 0 THEN <<fnd, FALSE>>
    ELSE IF hwnd \in excluded_hwnds THEN <<fnd, TRUE>>
    ELSE IF intersect_rects(get_window_rect(hwnd), work_rect) # None THEN <<hwnd, FALSE>>
    ELSE <<fnd, TRUE>>

\* _enum_cb(hwnd, lParam) with found as it stands: <<found afterwards, return value>>
enum_cb(fnd, hwnd) ==
    IF fnd # 0 THEN <<fnd, FALSE>>
    ELSE IF hwnd \in excluded_hwnds THEN <<fnd, TRUE>>
    ELSE IF ~IsWindowVisible(hwnd) THEN <<fnd, TRUE>>
    ELSE IF intersect_rects(get_window_rect(hwnd), work_rect) # None THEN <<hwnd, FALSE>>
    ELSE <<fnd, TRUE>>

\* EnumWindows(_enum_cb, 0) from the i-th window on: the callback is called
\* for each window in turn until it returns False; the value is found afterwards.
RECURSIVE EnumWindows(_, _)
EnumWindows(i, fnd) ==
    IF i > Len(EnumOrder) THEN fnd
    ELSE LET r == enum_cb(fnd, EnumOrder[i])
         IN  IF r[2] THEN EnumWindows(i + 1, r[1]) ELSE r[1]

\* find_visible_window_in_rect trying the window at the centre point before
\* the foreground window.
FindResult_pointFirst ==
    IF Candidate(atpt) THEN atpt
    ELSE IF Candidate(fg) THEN fg
    ELSE EnumWindows(1, 0)

\* The value find_visible_window_in_rect(work_rect, excluded_hwnds) returns.
FindResult ==
    IF Candidate(fg) THEN fg
    ELSE IF Candidate(atpt) THEN atpt
    ELSE EnumWindows(1, 0)

\* find_visible_window_in_rect(work_rect, excluded_hwnds)
find_visible_window_in_rect ==
    /\ findPc = "call"
    /\ found' = FindResult
    /\ findPc' = "return"
    /\ UNCHANGED <<work_rect, excluded_hwnds, windows, fg, atpt>>
    /\ UNCHANGED <<barVars, capVars, winVars, shotVars, isectVars, toastVars, appVars, nativeVars>>

\* The rectangles the window to capture may report: with area, without width,
\* without height, with right left of left, and a monitor-sized one.
CaptureRects == { <<1, 1, 3, 2>>, <<1, 1, 1, 2>>, <<1, 1, 3, 1>>, <<3, 1, 1, 2>>,
                  <<0, 0, MaxW, MaxH>> }

\* The GDI resources of one capture.
GdiResources == {"hdcWindow", "hdcMemDC", "hbm"}

\* capture_get_rect testing the width alone.
capture_get_rect_widthOnly ==
    /\ capPc = "call"
    /\ LET w == capRect[3] - capRect[1]
       IN  IF w <= 0
           THEN /\ capPc' = "return"
                /\ capResult' = "None"
           ELSE /\ capPc' = "rect"
                /\ UNCHANGED capResult
    /\ UNCHANGED <<capRect, capHeld, capPrintOk, capDibOk, capRaised>>
    /\ UNCHANGED <<barVars, findVars, winVars, shotVars, isectVars, toastVars, appVars, nativeVars>>

\* capture_window_to_qimage, lines 183-187: the bounds and the size test.
capture_get_rect ==
    /\ capPc = "call"
    /\ LET w == capRect[3] - capRect[1]
           h == capRect[4] - capRect[2]
       IN  IF w <= 0 \/ h <= 0
           THEN /\ capPc' = "return"
                /\ capResult' = "None"
           ELSE /\ capPc' = "rect"
                /\ UNCHANGED capResult
    /\ UNCHANGED <<capRect, capHeld, capPrintOk, capDibOk, capRaised>>
    /\ UNCHANGED <<barVars, findVars, winVars, shotVars, isectVars, toastVars, appVars, nativeVars>>

\* lines 190-193: GetWindowDC, CreateCompatibleDC, CreateCompatibleBitmap,
\* SelectObject. Each of the three may fail and return 0; none is tested.
capture_acquire ==
    /\ capPc = "rect"
    /\ \E got \in SUBSET GdiResources : capHeld' = got
    /\ capPc' = "acquired"
    /\ UNCHANGED <<capRect, capPrintOk, capDibOk, capRaised, capResult>>
    /\ UNCHANGED <<barVars, findVars, winVars, shotVars, isectVars, toastVars, appVars, nativeVars>>

\* lines 196-200: PrintWindow, and BitBlt when it failed.
capture_render ==
    /\ capPc = "acquired"
    /\ \E ok \in BOOLEAN : capPrintOk' = ok
    /\ capPc' = "rendered"
    /\ UNCHANGED <<capRect, capHeld, capDibOk, capRaised, capResult>>
    /\ UNCHANGED <<barVars, findVars, winVars, shotVars, isectVars, toastVars, appVars, nativeVars>>

\* lines 203-213: the header, the pixel buffer of w * h * 4 bytes, whose
\* allocation raises MemoryError when it cannot be had, and GetDIBits, whose
\* result is not tested. An exception goes to lines 224-226.
capture_extract ==
    /\ capPc = "rendered"
    /\ \E allocated \in BOOLEAN :
          IF allocated
          THEN /\ \E ok \in BOOLEAN : capDibOk' = ok
               /\ capPc' = "extracted"
               /\ UNCHANGED <<capRaised, capResult>>
          ELSE /\ capRaised' = TRUE
               /\ capResult' = "None"
               /\ capPc' = "return"
               /\ UNCHANGED capDibOk
    /\ UNCHANGED <<capRect, capHeld, capPrintOk>>
    /\ UNCHANGED <<barVars, findVars, winVars, shotVars, isectVars, toastVars, appVars, nativeVars>>

\* lines 216-218: DeleteObject(hbm), DeleteDC(hdcMemDC), ReleaseDC(hwnd, hdcWindow).
capture_cleanup ==
    /\ capPc = "extracted"
    /\ capHeld' = ((capHeld \ {"hbm"}) \ {"hdcMemDC"}) \ {"hdcWindow"}
    /\ capPc' = "cleaned"
    /\ UNCHANGED <<capRect, capPrintOk, capDibOk, capRaised, capResult>>
    /\ UNCHANGED <<barVars, findVars, winVars, shotVars, isectVars, toastVars, appVars, nativeVars>>

\* lines 221-226: the QImage over a copy of the buffer and its detached copy;
\* an exception (the copy cannot be allocated) goes to the except clause.
capture_convert ==
    /\ capPc = "cleaned"
    /\ \E converted \in BOOLEAN :
          IF converted
          THEN /\ capResult' = "image"
               /\ UNCHANGED capRaised
          ELSE /\ capRaised' = TRUE
               /\ capResult' = "None"
    /\ capPc' = "return"
    /\ UNCHANGED <<capRect, capHeld, capPrintOk, capDibOk>>
    /\ UNCHANGED <<barVars, findVars, winVars, shotVars, isectVars, toastVars, appVars, nativeVars>>

\* A KeyboardInterrupt or SystemExit raised while the capture runs: it is not
\* an Exception, the except clause of line 224 does not catch it and it leaves
\* capture_window_to_qimage.
capture_interrupted ==
    /\ capPc \in {"rect", "acquired", "rendered", "extracted", "cleaned"}
    /\ capResult' = "raise"
    /\ capPc' = "return"
    /\ UNCHANGED <<capRect, capHeld, capPrintOk, capDibOk, capRaised>>
    /\ UNCHANGED <<barVars, findVars, winVars, shotVars, isectVars, toastVars, appVars, nativeVars>>

\* ------------------------------------------------------- MainWindow

\* The attributes class AppBarWin defines (appbar_win.py, lines 69-252).
AppBarWinAttributes ==
    { "__init__", "is_docked", "dock", "undock", "reposition", "_get_monitor_rect",
      "_perform_dock", "get_opposite_work_area", "callback_msg",
      "_hwnd", "_callback_msg", "_registered", "_edge", "_width" }

\* What looking up an attribute of an AppBarWin raises: nothing ("") for an
\* attribute the class defines, AttributeError for any other.
GetAttr(name) == IF name \in AppBarWinAttributes THEN "" ELSE "AttributeError"

\* int(x / 100) for an integer x: Python's int() truncates towards zero.
IntDiv100(x) == IF x >= 0 THEN x \div 100 ELSE 0 - ((0 - x) \div 100)

\* MainWindow.__init__, lines 57-59: the width from the stored percentage.
DesiredWidth(screen_width, width_percent) == IntDiv100(screen_width * width_percent)

\* The rectangle of the window when it is not docked (restoreGeometry, or the
\* centred default size).
UndockedRect == <<1, 1, 3, 2>>

\* n more single-shot timers for _enforce_appbar_size.
Schedule(n) == Min(pendingEnforce + n, MaxTimers)

\* The event loop dispatches events: after the start-up timer, until the
\* window is closed, at top level or inside a processEvents() call.
Dispatching == startup = "done" /\ ~closed

\* MainWindow._register_appbar, the singleShot(0) of a window starting docked.
\* AppBarWin defines no get_last_rect: the call of line 249 raises
\* AttributeError and lines 250-257 do not run.
register_appbar ==
    /\ startup = "_register_appbar"
    /\ appbar' = Some(dock_obj(AppBarWin_init, edge_str, desired_width))
    /\ dock_os(AppBarWin_init, edge_str, desired_width, <<>>)
    /\ lastArgs' = <<edge_str, desired_width>>
    /\ GetAttr("get_last_rect") = "AttributeError"
    /\ raised' = GetAttr("get_last_rect")
    /\ handler' = "_register_appbar"
    /\ startup' = "done"
    /\ lastOp' = "dock"
    /\ ret' = None
    /\ UNCHANGED <<monitor, monMode>>
    /\ UNCHANGED <<cfgWidthPercent, screenWidth, is_docked, edge_str, desired_width,
                   enforce_fixed_width, qtGeometry, shown, updatesEnabled, maximized,
                   stack, closed, engineState, loadConnected, pendingEnforce>>
    /\ UNCHANGED <<findVars, capVars, shotVars, isectVars, toastVars, appVars, nativeVars>>

\* MainWindow._start_undocked, the singleShot(0) of a window starting undocked.
start_undocked ==
    /\ startup = "_start_undocked"
    /\ winRect' = UndockedRect
    /\ shown' = TRUE
    /\ raised' = ""
    /\ handler' = "_start_undocked"
    /\ startup' = "done"
    /\ lastOp' = "none"
    /\ lastArgs' = None
    /\ msgs' = <<>>
    /\ NoGeometry
    /\ ret' = None
    /\ UNCHANGED <<appbar, shellRegistered, monitor, monMode>>
    /\ UNCHANGED <<cfgWidthPercent, screenWidth, is_docked, edge_str, desired_width,
                   enforce_fixed_width, qtGeometry, updatesEnabled, maximized,
                   stack, closed, engineState, loadConnected, pendingEnforce>>
    /\ UNCHANGED <<findVars, capVars, shotVars, isectVars, toastVars, appVars, nativeVars>>

\* MainWindow._init_web_engine up to the processEvents() of line 184.
init_web_engine ==
    /\ Dispatching
    /\ engineState = "pending"
    /\ Len(stack) < MaxNest
    /\ IF is_docked /\ appbar # None
       THEN /\ reposition_os(The(appbar), <<>>)
            /\ lastOp' = "reposition"
       ELSE /\ msgs' = <<>>
            /\ NoGeometry
            /\ lastOp' = "none"
            /\ UNCHANGED <<winRect, shellRegistered>>
    /\ lastArgs' = None
    /\ ret' = None
    /\ stack' = Append(stack, "_init_web_engine")
    /\ engineState' = "running"
    /\ handler' = "_init_web_engine"
    /\ raised' = ""
    /\ UNCHANGED <<appbar, monitor, monMode>>
    /\ UNCHANGED <<cfgWidthPercent, screenWidth, is_docked, edge_str, desired_width,
                   enforce_fixed_width, startup, qtGeometry, shown, updatesEnabled,
                   maximized, closed, loadConnected, pendingEnforce>>
    /\ UNCHANGED <<findVars, capVars, shotVars, isectVars, toastVars, appVars, nativeVars>>

\* MainWindow._init_web_engine from the return of processEvents() on (lines 186-200).
init_web_engine_resume ==
    /\ stack # <<>>
    /\ stack[Len(stack)] = "_init_web_engine"
    /\ stack' = SubSeq(stack, 1, Len(stack) - 1)
    /\ IF is_docked /\ appbar # None
       THEN /\ loadConnected' = TRUE
            /\ pendingEnforce' = Schedule(2)
       ELSE UNCHANGED <<loadConnected, pendingEnforce>>
    /\ engineState' = "done"
    /\ handler' = "_init_web_engine"
    /\ raised' = ""
    /\ lastOp' = "none"
    /\ lastArgs' = None
    /\ msgs' = <<>>
    /\ NoGeometry
    /\ ret' = None
    /\ UNCHANGED <<appbar, winRect, shellRegistered, monitor, monMode>>
    /\ UNCHANGED <<cfgWidthPercent, screenWidth, is_docked, edge_str, desired_width,
                   enforce_fixed_width, startup, qtGeometry, shown, updatesEnabled,
                   maximized, closed>>
    /\ UNCHANGED <<findVars, capVars, shotVars, isectVars, toastVars, appVars, nativeVars>>

\* MainWindow._on_page_load_finished(ok)
on_page_load_finished(ok) ==
    /\ Dispatching
    /\ loadConnected
    /\ IF ok /\ is_docked /\ appbar # None
       THEN pendingEnforce' = Schedule(1)
       ELSE UNCHANGED pendingEnforce
    /\ handler' = "_on_page_load_finished"
    /\ raised' = ""
    /\ lastOp' = "none"
    /\ lastArgs' = None
    /\ msgs' = <<>>
    /\ NoGeometry
    /\ ret' = None
    /\ UNCHANGED <<appbar, winRect, shellRegistered, monitor, monMode>>
    /\ UNCHANGED <<cfgWidthPercent, screenWidth, is_docked, edge_str, desired_width,
                   enforce_fixed_width, startup, qtGeometry, shown, updatesEnabled,
                   maximized, stack, closed, engineState, loadConnected>>
    /\ UNCHANGED <<findVars, capVars, shotVars, isectVars, toastVars, appVars, nativeVars>>

\* MainWindow.resizeEvent
resizeEvent ==
    /\ Dispatching
    /\ IF is_docked /\ enforce_fixed_width /\ appbar # None
       THEN pendingEnforce' = Schedule(1)
       ELSE UNCHANGED pendingEnforce
    /\ handler' = "resizeEvent"
    /\ raised' = ""
    /\ lastOp' = "none"
    /\ lastArgs' = None
    /\ msgs' = <<>>
    /\ NoGeometry
    /\ ret' = None
    /\ UNCHANGED <<appbar, winRect, shellRegistered, monitor, monMode>>
    /\ UNCHANGED <<cfgWidthPercent, screenWidth, is_docked, edge_str, desired_width,
                   enforce_fixed_width, startup, qtGeometry, shown, updatesEnabled,
                   maximized, stack, closed, engineState, loadConnected>>
    /\ UNCHANGED <<findVars, capVars, shotVars, isectVars, toastVars, appVars, nativeVars>>

\* _enforce_appbar_size without the test of line 214.
enforce_appbar_size_noDockedTest ==
    /\ Dispatching
    /\ pendingEnforce > 0
    /\ pendingEnforce' = pendingEnforce - 1
    /\ IF appbar # None
       THEN /\ reposition_os(The(appbar), <<>>)
            /\ lastOp' = "reposition"
            /\ GetAttr("get_last_rect") = "AttributeError"
            /\ raised' = GetAttr("get_last_rect")
       ELSE /\ msgs' = <<>>
            /\ NoGeometry
            /\ lastOp' = "none"
            /\ raised' = "AttributeError"
            /\ UNCHANGED <<winRect, shellRegistered>>
    /\ handler' = "_enforce_appbar_size"
    /\ lastArgs' = None
    /\ ret' = None
    /\ UNCHANGED <<appbar, monitor, monMode>>
    /\ UNCHANGED <<cfgWidthPercent, screenWidth, is_docked, edge_str, desired_width,
                   enforce_fixed_width, startup, qtGeometry, shown, updatesEnabled,
                   maximized, stack, closed, engineState, loadConnected>>
    /\ UNCHANGED <<findVars, capVars, shotVars, isectVars, toastVars, appVars, nativeVars>>

\* MainWindow._enforce_appbar_size, when one of its single-shot timers fires.
\* With a docked bar it repositions and then calls get_last_rect, which
\* AppBarWin does not define: AttributeError, and lines 220-224 do not run.
enforce_appbar_size ==
    /\ Dispatching
    /\ pendingEnforce > 0
    /\ pendingEnforce' = pendingEnforce - 1
    /\ IF is_docked /\ appbar # None
       THEN /\ reposition_os(The(appbar), <<>>)
            /\ lastOp' = "reposition"
            /\ GetAttr("get_last_rect") = "AttributeError"
            /\ raised' = GetAttr("get_last_rect")
       ELSE /\ msgs' = <<>>
            /\ NoGeometry
            /\ lastOp' = "none"
            /\ raised' = ""
            /\ UNCHANGED <<winRect, shellRegistered>>
    /\ handler' = "_enforce_appbar_size"
    /\ lastArgs' = None
    /\ ret' = None
    /\ UNCHANGED <<appbar, monitor, monMode>>
    /\ UNCHANGED <<cfgWidthPercent, screenWidth, is_docked, edge_str, desired_width,
                   enforce_fixed_width, startup, qtGeometry, shown, updatesEnabled,
                   maximized, stack, closed, engineState, loadConnected>>
    /\ UNCHANGED <<findVars, capVars, shotVars, isectVars, toastVars, appVars, nativeVars>>

\* The other edge string (lines 491-496).
OtherEdge(e) == IF e = "left" THEN "right" ELSE "left"

\* on_toggle_side dropping the AppBarWin without the undock() of line 509.
on_toggle_side_noUndock ==
    /\ Dispatching
    /\ edge_str' = OtherEdge(edge_str)
    /\ IF is_docked /\ appbar # None
       THEN /\ Len(stack) < MaxNest
            /\ updatesEnabled' = FALSE
            /\ msgs' = <<>>
            /\ UNCHANGED shellRegistered
            /\ appbar' = None
            /\ stack' = Append(stack, "on_toggle_side")
            /\ lastOp' = "undock"
       ELSE /\ msgs' = <<>>
            /\ lastOp' = "none"
            /\ UNCHANGED <<updatesEnabled, shellRegistered, appbar, stack>>
    /\ NoGeometry
    /\ handler' = "on_toggle_side"
    /\ raised' = ""
    /\ lastArgs' = None
    /\ ret' = None
    /\ UNCHANGED <<winRect, monitor, monMode>>
    /\ UNCHANGED <<cfgWidthPercent, screenWidth, is_docked, desired_width,
                   enforce_fixed_width, startup, qtGeometry, shown, maximized,
                   closed, engineState, loadConnected, pendingEnforce>>
    /\ UNCHANGED <<findVars, capVars, shotVars, isectVars, toastVars, appVars, nativeVars>>

\* MainWindow.on_toggle_side up to the processEvents() of line 513, or to its
\* end when the window is not docked.
on_toggle_side ==
    /\ Dispatching
    /\ edge_str' = OtherEdge(edge_str)
    /\ IF is_docked /\ appbar # None
       THEN /\ Len(stack) < MaxNest
            /\ updatesEnabled' = FALSE
            /\ undock_os(The(appbar), <<>>)
            /\ appbar' = None
            /\ stack' = Append(stack, "on_toggle_side")
            /\ lastOp' = "undock"
       ELSE /\ msgs' = <<>>
            /\ lastOp' = "none"
            /\ UNCHANGED <<updatesEnabled, shellRegistered, appbar, stack>>
    /\ NoGeometry
    /\ handler' = "on_toggle_side"
    /\ raised' = ""
    /\ lastArgs' = None
    /\ ret' = None
    /\ UNCHANGED <<winRect, monitor, monMode>>
    /\ UNCHANGED <<cfgWidthPercent, screenWidth, is_docked, desired_width,
                   enforce_fixed_width, startup, qtGeometry, shown, maximized,
                   closed, engineState, loadConnected, pendingEnforce>>
    /\ UNCHANGED <<findVars, capVars, shotVars, isectVars, toastVars, appVars, nativeVars>>

\* MainWindow.on_toggle_side from the return of processEvents() on (lines
\* 515-528): a new AppBarWin is docked, then get_last_rect, which AppBarWin
\* does not define, raises AttributeError and lines 522-528 do not run.
on_toggle_side_resume ==
    /\ stack # <<>>
    /\ stack[Len(stack)] = "on_toggle_side"
    /\ stack' = SubSeq(stack, 1, Len(stack) - 1)
    /\ appbar' = Some(dock_obj(AppBarWin_init, edge_str, desired_width))
    /\ dock_os(AppBarWin_init, edge_str, desired_width, <<>>)
    /\ lastArgs' = <<edge_str, desired_width>>
    /\ lastOp' = "dock"
    /\ GetAttr("get_last_rect") = "AttributeError"
    /\ raised' = GetAttr("get_last_rect")
    /\ handler' = "on_toggle_side"
    /\ ret' = None
    /\ UNCHANGED <<monitor, monMode>>
    /\ UNCHANGED <<cfgWidthPercent, screenWidth, is_docked, edge_str, desired_width,
                   enforce_fixed_width, startup, qtGeometry, shown, updatesEnabled,
                   maximized, closed, engineState, loadConnected, pendingEnforce>>
    /\ UNCHANGED <<findVars, capVars, shotVars, isectVars, toastVars, appVars, nativeVars>>

\* MainWindow._undock, through on_toggle_dock on a docked window.
on_toggle_dock_undock ==
    /\ Dispatching
    /\ is_docked
    /\ IF appbar # None
       THEN /\ undock_os(The(appbar), <<>>)
            /\ lastOp' = "undock"
       ELSE /\ msgs' = <<>>
            /\ lastOp' = "none"
            /\ UNCHANGED shellRegistered
    /\ appbar' = None
    /\ is_docked' = FALSE
    /\ enforce_fixed_width' = FALSE
    /\ winRect' = UndockedRect
    /\ shown' = TRUE
    /\ NoGeometry
    /\ handler' = "_undock"
    /\ raised' = ""
    /\ lastArgs' = None
    /\ ret' = None
    /\ UNCHANGED <<monitor, monMode>>
    /\ UNCHANGED <<cfgWidthPercent, screenWidth, edge_str, desired_width, startup,
                   qtGeometry, updatesEnabled, maximized, stack, closed, engineState,
                   loadConnected, pendingEnforce>>
    /\ UNCHANGED <<findVars, capVars, shotVars, isectVars, toastVars, appVars, nativeVars>>

\* MainWindow._redock from line 578 on: a new AppBarWin is docked.
redock_body ==
    /\ shown' = TRUE
    /\ appbar' = Some(dock_obj(AppBarWin_init, edge_str, desired_width))
    /\ dock_os(AppBarWin_init, edge_str, desired_width, <<>>)
    /\ lastArgs' = <<edge_str, desired_width>>
    /\ lastOp' = "dock"
    /\ is_docked' = TRUE
    /\ enforce_fixed_width' = TRUE
    /\ handler' = "_redock"
    /\ raised' = ""
    /\ ret' = None
    /\ UNCHANGED <<monitor, monMode>>
    /\ UNCHANGED <<cfgWidthPercent, screenWidth, edge_str, desired_width, startup,
                   qtGeometry, updatesEnabled, closed, engineState, loadConnected,
                   pendingEnforce>>
    /\ UNCHANGED <<findVars, capVars, shotVars, isectVars, toastVars, appVars, nativeVars>>

\* MainWindow._redock, through on_toggle_dock on an undocked window: to its
\* end, or, when the window is maximized, up to the processEvents() of line 576.
on_toggle_dock_redock ==
    /\ Dispatching
    /\ ~is_docked
    /\ IF maximized
       THEN /\ Len(stack) < MaxNest
            /\ maximized' = FALSE
            /\ stack' = Append(stack, "_redock")
            /\ handler' = "_redock"
            /\ raised' = ""
            /\ lastOp' = "none"
            /\ lastArgs' = None
            /\ msgs' = <<>>
            /\ NoGeometry
            /\ ret' = None
            /\ UNCHANGED <<appbar, winRect, shellRegistered, monitor, monMode>>
            /\ UNCHANGED <<cfgWidthPercent, screenWidth, is_docked, edge_str,
                           desired_width, enforce_fixed_width, startup, qtGeometry,
                           shown, updatesEnabled, closed, engineState, loadConnected,
                           pendingEnforce>>
            /\ UNCHANGED <<findVars, capVars, shotVars, isectVars, toastVars, appVars, nativeVars>>
       ELSE /\ redock_body
            /\ UNCHANGED <<maximized, stack>>

\* MainWindow._redock from the return of processEvents() on.
redock_resume ==
    /\ stack # <<>>
    /\ stack[Len(stack)] = "_redock"
    /\ stack' = SubSeq(stack, 1, Len(stack) - 1)
    /\ redock_body
    /\ UNCHANGED maximized

\* The user maximizes the undocked window.
Maximize ==
    /\ Dispatching
    /\ ~is_docked
    /\ ~maximized
    /\ maximized' = TRUE
    /\ handler' = "none"
    /\ raised' = ""
    /\ lastOp' = "none"
    /\ lastArgs' = None
    /\ msgs' = <<>>
    /\ NoGeometry
    /\ ret' = None
    /\ UNCHANGED <<appbar, winRect, shellRegistered, monitor, monMode>>
    /\ UNCHANGED <<cfgWidthPercent, screenWidth, is_docked, edge_str, desired_width,
                   enforce_fixed_width, startup, qtGeometry, shown, updatesEnabled,
                   stack, closed, engineState, loadConnected, pendingEnforce>>
    /\ UNCHANGED <<findVars, capVars, shotVars, isectVars, toastVars, appVars, nativeVars>>

POSCHANGED == 1

\* The notification codes of the model: ABN_STATECHANGE, ABN_POSCHANGED and
\* ABN_FULLSCREENAPP.
NotificationCodes == {0, POSCHANGED, 2}

\* nativeEvent without the test of the notification code.
nativeEvent_anyCode(is_callback_msg, wParam) ==
    /\ Dispatching
    /\ IF is_docked /\ appbar # None /\ is_callback_msg
       THEN /\ reposition_os(The(appbar), <<>>)
            /\ lastOp' = "reposition"
       ELSE /\ msgs' = <<>>
            /\ NoGeometry
            /\ lastOp' = "none"
            /\ UNCHANGED <<winRect, shellRegistered>>
    /\ handler' = "nativeEvent"
    /\ raised' = ""
    /\ lastArgs' = None
    /\ ret' = None
    /\ UNCHANGED <<appbar, monitor, monMode>>
    /\ UNCHANGED <<cfgWidthPercent, screenWidth, is_docked, edge_str, desired_width,
                   enforce_fixed_width, startup, qtGeometry, shown, updatesEnabled,
                   maximized, stack, closed, engineState, loadConnected, pendingEnforce>>
    /\ UNCHANGED <<findVars, capVars, shotVars, isectVars, toastVars, appVars, nativeVars>>

\* MainWindow.nativeEvent for a windows_generic_MSG whose message id is or is
\* not the registered callback message, with notification code wParam.
nativeEvent(is_callback_msg, wParam) ==
    /\ Dispatching
    /\ IF is_docked /\ appbar # None /\ is_callback_msg /\ wParam = POSCHANGED
       THEN /\ reposition_os(The(appbar), <<>>)
            /\ lastOp' = "reposition"
       ELSE /\ msgs' = <<>>
            /\ NoGeometry
            /\ lastOp' = "none"
            /\ UNCHANGED <<winRect, shellRegistered>>
    /\ handler' = "nativeEvent"
    /\ raised' = ""
    /\ lastArgs' = None
    /\ ret' = None
    /\ UNCHANGED <<appbar, monitor, monMode>>
    /\ UNCHANGED <<cfgWidthPercent, screenWidth, is_docked, edge_str, desired_width,
                   enforce_fixed_width, startup, qtGeometry, shown, updatesEnabled,
                   maximized, stack, closed, engineState, loadConnected, pendingEnforce>>
    /\ UNCHANGED <<findVars, capVars, shotVars, isectVars, toastVars, appVars, nativeVars>>

\* closeEvent without the undock() of lines 715-716.
closeEvent_noUndock ==
    /\ Dispatching
    /\ msgs' = <<>>
    /\ lastOp' = "none"
    /\ UNCHANGED <<shellRegistered, appbar>>
    /\ closed' = TRUE
    /\ NoGeometry
    /\ handler' = "closeEvent"
    /\ raised' = ""
    /\ lastArgs' = None
    /\ ret' = None
    /\ UNCHANGED <<winRect, monitor, monMode>>
    /\ UNCHANGED <<cfgWidthPercent, screenWidth, is_docked, edge_str, desired_width,
                   enforce_fixed_width, startup, qtGeometry, shown, updatesEnabled,
                   maximized, stack, engineState, loadConnected, pendingEnforce>>
    /\ UNCHANGED <<findVars, capVars, shotVars, isectVars, toastVars, appVars, nativeVars>>

\* MainWindow.closeEvent
closeEvent ==
    /\ Dispatching
    /\ IF appbar # None
       THEN /\ undock_os(The(appbar), <<>>)
            /\ appbar' = Some(undock_obj(The(appbar)))
            /\ lastOp' = "undock"
       ELSE /\ msgs' = <<>>
            /\ lastOp' = "none"
            /\ UNCHANGED <<shellRegistered, appbar>>
    /\ closed' = TRUE
    /\ NoGeometry
    /\ handler' = "closeEvent"
    /\ raised' = ""
    /\ lastArgs' = None
    /\ ret' = None
    /\ UNCHANGED <<winRect, monitor, monMode>>
    /\ UNCHANGED <<cfgWidthPercent, screenWidth, is_docked, edge_str, desired_width,
                   enforce_fixed_width, startup, qtGeometry, shown, updatesEnabled,
                   maximized, stack, engineState, loadConnected, pendingEnforce>>
    /\ UNCHANGED <<findVars, capVars, shotVars, isectVars, toastVars, appVars, nativeVars>>

\* int(self.winId()): the handle of the hosting window, which is none of the
\* other top-level windows.
OwnHwnd == NumWindows + 1

\* The toasts of on_screenshot_to_chat (lines 299, 311, 323, 335).
ToastNotDocked == "Screenshot only works in docked mode"
ToastNoWindow == "No window to capture in the work area."
ToastCaptureFailed == "Couldn't capture that window."
ToastPasteFailed == "Couldn't paste into the chat. Click the message box and retry."
ToastAttached == "Screenshot attached."
ToastFailed == "Screenshot failed. Please try again."

\* No capture_window_to_qimage call is under way: the event loop can dispatch.
NotCapturing == shotPc # "capturing"

TOAST_DURATION_MS == 3000
SCREENSHOT_TOAST_DURATION_MS == 1500

\* The parameters of _show_toast (line 620); a call that names another
\* keyword raises TypeError before the body runs.
ShowToastParams == {"message", "duration_ms"}
ShowToastRaises(keyword) == keyword \notin ShowToastParams

\* MainWindow._show_toast(message, duration_ms): the label it had is deleted,
\* a new one is shown and the single-shot timer is started again.
show_toast(message, duration_ms) ==
    /\ toastLabel' = Some(message)
    /\ toastTimer' = duration_ms

\* The failures a handler of MainWindow can end on.
FailurePaths == {"not_docked", "no_window", "capture_failed", "exception",
                 "paste_failed", "autostart", "sign_out"}

\* QtWebEngine.evaluate_js(js, self._after_paste_result): the page runs the
\* script once and will call the callback with its value.
evaluate_js ==
    /\ scriptRuns' = scriptRuns + 1
    /\ pastePending' = pastePending + 1

\* The handlers below leave the bar, the window and the screenshot request alone.
ToastHandlerFrame ==
    /\ lastOp' = "none"
    /\ lastArgs' = None
    /\ msgs' = <<>>
    /\ NoGeometry
    /\ ret' = None
    /\ UNCHANGED <<appbar, winRect, shellRegistered, monitor, monMode>>
    /\ UNCHANGED <<cfgWidthPercent, screenWidth, is_docked, edge_str, desired_width,
                   enforce_fixed_width, startup, qtGeometry, shown, updatesEnabled,
                   maximized, stack, closed, engineState, loadConnected, pendingEnforce>>
    /\ UNCHANGED <<findVars, capVars, shotVars, isectVars, appVars, nativeVars>>

\* MainWindow._hide_toast, called when the single-shot _toast_timer fires.
hide_toast ==
    /\ Dispatching
    /\ NotCapturing
    /\ toastTimer > 0
    /\ toastTimer' = 0
    /\ toastLabel' = None
    /\ lastFailure' = ""
    /\ handler' = "_hide_toast"
    /\ raised' = ""
    /\ UNCHANGED <<pastePending, scriptRuns>>
    /\ ToastHandlerFrame

\* _after_paste_result evaluating the script again when the paste failed.
after_paste_result_retries(ok) ==
    /\ Dispatching
    /\ NotCapturing
    /\ pastePending > 0
    /\ IF ~ok
       THEN /\ show_toast(ToastPasteFailed, TOAST_DURATION_MS)
            /\ lastFailure' = "paste_failed"
            /\ scriptRuns' = scriptRuns + 1
            /\ pastePending' = pastePending
       ELSE /\ show_toast(ToastAttached, SCREENSHOT_TOAST_DURATION_MS)
            /\ lastFailure' = ""
            /\ scriptRuns' = scriptRuns
            /\ pastePending' = pastePending - 1
    /\ handler' = "_after_paste_result"
    /\ raised' = ""
    /\ ToastHandlerFrame

\* MainWindow._after_paste_result(ok), called by the page with the value of
\* the paste script.
after_paste_result(ok) ==
    /\ Dispatching
    /\ NotCapturing
    /\ pastePending > 0
    /\ pastePending' = pastePending - 1
    /\ IF ~ok
       THEN /\ show_toast(ToastPasteFailed, TOAST_DURATION_MS)
            /\ lastFailure' = "paste_failed"
       ELSE /\ show_toast(ToastAttached, SCREENSHOT_TOAST_DURATION_MS)
            /\ lastFailure' = ""
    /\ scriptRuns' = scriptRuns
    /\ handler' = "_after_paste_result"
    /\ raised' = ""
    /\ ToastHandlerFrame

\* MainWindow.on_settings_changed with the dictionary the Apply button emits
\* (ui/sidebar.py, lines 828-839): _set_autostart runs and may fail in the
\* registry; its except clause calls _show_toast with the keyword duration
\* (line 487). When it succeeds the dictionary holds 'theme' and
\* 'width_percent', so line 422 calls _show_toast with the keyword duration.
on_settings_changed_apply(autostart_fails) ==
    /\ Dispatching
    /\ NotCapturing
    /\ IF ShowToastRaises("duration")
       THEN /\ raised' = "TypeError"
            /\ UNCHANGED <<toastLabel, toastTimer>>
       ELSE /\ raised' = ""
            /\ show_toast("settings", IF autostart_fails THEN 4000 ELSE 5000)
    /\ lastFailure' = (IF autostart_fails THEN "autostart" ELSE "")
    /\ handler' = "on_settings_changed"
    /\ UNCHANGED <<pastePending, scriptRuns>>
    /\ ToastHandlerFrame

\* MainWindow.on_settings_changed({'sign_out': True}), that is _sign_out:
\* with an engine it clears the cookies, which may raise, and navigates;
\* every branch then calls _show_toast with the keyword duration (lines 442,
\* 445), and so does the except clause that catches that call's TypeError
\* (line 450).
on_settings_changed_sign_out(cookies_raise) ==
    /\ Dispatching
    /\ NotCapturing
    /\ IF ShowToastRaises("duration")
       THEN /\ raised' = "TypeError"
            /\ UNCHANGED <<toastLabel, toastTimer>>
       ELSE /\ raised' = ""
            /\ show_toast("sign out", IF engineState = "pending" THEN 3000
                                      ELSE IF cookies_raise THEN 4000 ELSE 2000)
    /\ lastFailure' = (IF engineState = "pending" \/ cookies_raise
                       THEN "sign_out" ELSE "")
    /\ handler' = "on_settings_changed"
    /\ UNCHANGED <<pastePending, scriptRuns>>
    /\ ToastHandlerFrame

\* MainWindow.on_screenshot_to_chat up to the call of capture_window_to_qimage
\* (lines 297-317), or to its return when there is no bar or no window found.
on_screenshot_to_chat ==
    /\ Dispatching
    /\ NotCapturing
    /\ pastePending < MaxPending
    /\ UNCHANGED <<windows, fg, atpt>>
    /\ scriptRuns' = 0
    /\ UNCHANGED pastePending
    /\ IF appbar = None
       THEN /\ toast' = ToastNotDocked
            /\ show_toast(ToastNotDocked, TOAST_DURATION_MS)
            /\ lastFailure' = "not_docked"
            /\ shotPc' = "done"
            /\ shotCalls' = <<>>
            /\ ret' = None
            /\ lastOp' = "none"
            /\ UNCHANGED <<work_rect, excluded_hwnds, findPc, found, hidden>>
            /\ UNCHANGED capVars
       ELSE /\ work_rect' = OppositeWorkArea(The(appbar))
            /\ ret' = OppositeWorkArea(The(appbar))
            /\ lastOp' = "get_opposite_work_area"
            /\ excluded_hwnds' = {OwnHwnd}
            /\ findPc' = "return"
            /\ found' = FindResult'
            /\ IF found' = 0
               THEN /\ toast' = ToastNoWindow
                    /\ show_toast(ToastNoWindow, TOAST_DURATION_MS)
                    /\ lastFailure' = "no_window"
                    /\ shotPc' = "done"
                    /\ shotCalls' = <<>>
                    /\ UNCHANGED hidden
                    /\ UNCHANGED capVars
               ELSE /\ hidden' = TRUE
                    /\ shotCalls' = <<"hide">>
                    /\ toast' = ""
                    /\ UNCHANGED <<toastLabel, toastTimer, lastFailure>>
                    /\ shotPc' = "capturing"
                    /\ capPc' = "call"
                    /\ capRect' = windows[found'].rect
                    /\ capHeld' = {}
                    /\ capPrintOk' = FALSE
                    /\ capDibOk' = FALSE
                    /\ capRaised' = FALSE
                    /\ capResult' = "None"
    /\ encoded' = FALSE
    /\ pasted' = FALSE
    /\ handler' = "on_screenshot_to_chat"
    /\ UNCHANGED <<isectVars, appVars, nativeVars>>
    /\ raised' = ""
    /\ msgs' = <<>>
    /\ NoGeometry
    /\ lastArgs' = None
    /\ UNCHANGED <<appbar, winRect, monitor, monMode, shellRegistered>>
    /\ UNCHANGED <<cfgWidthPercent, screenWidth, is_docked, edge_str, desired_width,
                   enforce_fixed_width, startup, qtGeometry, shown, updatesEnabled,
                   maximized, stack, closed, engineState, loadConnected, pendingEnforce>>

\* on_screenshot_to_chat_resume without the finally clause of lines 318-319:
\* show_window is called only when the capture returned.
on_screenshot_to_chat_resume_noFinally ==
    /\ shotPc = "capturing"
    /\ capPc = "return"
    /\ shotPc' = "done"
    /\ IF capResult = "raise"
       THEN /\ raised' = "BaseException"
            /\ UNCHANGED <<hidden, shotCalls, toast, encoded, pasted>>
            /\ UNCHANGED toastVars
       ELSE /\ hidden' = FALSE
            /\ shotCalls' = Append(shotCalls, "show")
            /\ raised' = ""
            /\ IF capResult = "None"
               THEN /\ toast' = ToastCaptureFailed
                    /\ show_toast(ToastCaptureFailed, TOAST_DURATION_MS)
                    /\ lastFailure' = "capture_failed"
                    /\ UNCHANGED <<encoded, pasted, pastePending, scriptRuns>>
               ELSE /\ encoded' = TRUE
                    /\ pasted' = (engineState # "pending")
                    /\ toast' = (IF engineState = "pending" THEN ToastFailed ELSE "")
                    /\ IF engineState = "pending"
                       THEN /\ show_toast(ToastFailed, TOAST_DURATION_MS)
                            /\ lastFailure' = "exception"
                            /\ UNCHANGED <<pastePending, scriptRuns>>
                       ELSE /\ evaluate_js
                            /\ UNCHANGED <<toastLabel, toastTimer, lastFailure>>
    /\ handler' = "on_screenshot_to_chat"
    /\ UNCHANGED <<isectVars, appVars, nativeVars>>
    /\ UNCHANGED <<barVars, findVars, capVars>>
    /\ UNCHANGED <<cfgWidthPercent, screenWidth, is_docked, edge_str, desired_width,
                   enforce_fixed_width, startup, qtGeometry, shown, updatesEnabled,
                   maximized, stack, closed, engineState, loadConnected, pendingEnforce>>

\* MainWindow.on_screenshot_to_chat from the end of the capture_window_to_qimage
\* call on (lines 318-335). The finally clause shows the window whether the
\* call returned or raised. An exception that left the call is not an
\* Exception and leaves the handler too. self.engine is None until
\* _init_web_engine has run: evaluate_js then raises AttributeError, which
\* line 333 catches.
on_screenshot_to_chat_resume ==
    /\ shotPc = "capturing"
    /\ capPc = "return"
    /\ shotPc' = "done"
    /\ hidden' = FALSE
    /\ shotCalls' = Append(shotCalls, "show")
    /\ IF capResult = "raise"
       THEN /\ raised' = "BaseException"
            /\ UNCHANGED <<toast, encoded, pasted>>
            /\ UNCHANGED toastVars
       ELSE /\ raised' = ""
            /\ IF capResult = "None"
               THEN /\ toast' = ToastCaptureFailed
                    /\ show_toast(ToastCaptureFailed, TOAST_DURATION_MS)
                    /\ lastFailure' = "capture_failed"
                    /\ UNCHANGED <<encoded, pasted, pastePending, scriptRuns>>
               ELSE /\ encoded' = TRUE
                    /\ pasted' = (engineState # "pending")
                    /\ toast' = (IF engineState = "pending" THEN ToastFailed ELSE "")
                    /\ IF engineState = "pending"
                       THEN /\ show_toast(ToastFailed, TOAST_DURATION_MS)
                            /\ lastFailure' = "exception"
                            /\ UNCHANGED <<pastePending, scriptRuns>>
                       ELSE /\ evaluate_js
                            /\ UNCHANGED <<toastLabel, toastTimer, lastFailure>>
    /\ handler' = "on_screenshot_to_chat"
    /\ UNCHANGED <<isectVars, appVars, nativeVars>>
    /\ UNCHANGED <<barVars, findVars, capVars>>
    /\ UNCHANGED <<cfgWidthPercent, screenWidth, is_docked, edge_str, desired_width,
                   enforce_fixed_width, startup, qtGeometry, shown, updatesEnabled,
                   maximized, stack, closed, engineState, loadConnected, pendingEnforce>>

\* ------------------------------------------------------- specification

\* No search under way, on a desktop without qualifying windows.
FindIdle ==
    /\ work_rect = SearchRectA
    /\ excluded_hwnds = {}
    /\ windows = [h \in Handles |-> [visible |-> FALSE, rect |-> <<5, 0, 7, 2>>]]
    /\ fg = 0
    /\ atpt = 0
    /\ findPc = "return"
    /\ found = 0

\* No capture under way.
CapIdle ==
    /\ capPc = "return"
    /\ capRect = <<1, 1, 1, 2>>
    /\ capHeld = {}
    /\ capPrintOk = FALSE
    /\ capDibOk = FALSE
    /\ capRaised = FALSE
    /\ capResult = "None"

\* No MainWindow: the controller is driven directly.
WinIdle ==
    /\ cfgWidthPercent = 20
    /\ screenWidth = 1920
    /\ is_docked = FALSE
    /\ edge_str = "left"
    /\ desired_width = 384
    /\ enforce_fixed_width = FALSE
    /\ startup = "done"
    /\ qtGeometry = None
    /\ shown = FALSE
    /\ updatesEnabled = TRUE
    /\ maximized = FALSE
    /\ stack = <<>>
    /\ handler = "none"
    /\ raised = ""
    /\ closed = TRUE
    /\ engineState = "done"
    /\ loadConnected = FALSE
    /\ pendingEnforce = 0

\* No call of _intersect_rects under way.
IsectIdle ==
    /\ rectA = <<0, 0, 1, 1>>
    /\ rectB = <<0, 0, 1, 1>>
    /\ isectPc = "return"
    /\ isectRet = <<0, 0, 1, 1>>

\* No toast shown and no paste script run.
ToastIdle ==
    /\ toastLabel = None
    /\ toastTimer = 0
    /\ lastFailure = ""
    /\ pastePending = 0
    /\ scriptRuns = 0

\* The program was started without --native-app.
NativeIdle ==
    /\ dockPending = FALSE
    /\ dockAttempts = 0
    /\ chatgptWindow = 0
    /\ chatgpt_hwnd = 0
    /\ chatgptRect = None

\* The program was started without --width.
AppIdle == argWidth = DEFAULT_WIDTH

\* No screenshot request made.
ShotIdle ==
    /\ shotPc = "idle"
    /\ hidden = FALSE
    /\ shotCalls = <<>>
    /\ toast = ""
    /\ encoded = FALSE
    /\ pasted = FALSE

\* A fresh AppBarWin for a window that is not docked yet.
BarInit ==
    /\ appbar = Some(AppBarWin_init)
    /\ winRect = <<0, 0, 1, 1>>
    /\ shellRegistered = FALSE
    /\ msgs = <<>>
    /\ proposed = None
    /\ queried = None
    /\ applied = None
    /\ lastOp = "init"
    /\ lastArgs = None
    /\ ret = None

Init ==
    /\ BarInit
    /\ monitor \in Monitors
    /\ monMode \in MonModes
    /\ FindIdle
    /\ CapIdle
    /\ WinIdle
    /\ ShotIdle
    /\ IsectIdle
    /\ ToastIdle
    /\ AppIdle
    /\ NativeIdle

Next ==
    \/ \E edge \in EdgeStrings, width \in Widths : dock(edge, width)
    \/ undock
    \/ reposition
    \/ get_opposite_work_area
    \/ MonitorChange

Spec == Init /\ [][Next]_vars

\* The controller on a display that stays as it is.
NextSameMonitor ==
    \/ \E edge \in EdgeStrings, width \in Widths : dock(edge, width)
    \/ undock
    \/ reposition
    \/ get_opposite_work_area

SpecSameMonitor == Init /\ [][NextSameMonitor]_vars

\* A call of find_visible_window_in_rect with any rectangle, excluded set and desktop.
InitFind ==
    /\ BarInit
    /\ monitor = <<0, 0, MaxW, MaxH>>
    /\ monMode = "win32"
    /\ work_rect \in {SearchRectA, SearchRectB}
    /\ excluded_hwnds \in {x \in SUBSET Handles : Cardinality(x) <= 2}
    /\ windows \in [Handles -> [visible : BOOLEAN, rect : WindowRects]]
    /\ fg \in Handles \cup {0}
    /\ atpt \in Handles \cup {0}
    /\ findPc = "call"
    /\ found = 0
    /\ CapIdle
    /\ WinIdle
    /\ ShotIdle
    /\ IsectIdle
    /\ ToastIdle
    /\ AppIdle
    /\ NativeIdle

NextFind == find_visible_window_in_rect

SpecFind == InitFind /\ [][NextFind]_vars

\* A call of _intersect_rects with any two rectangles.
InitIntersect ==
    /\ BarInit
    /\ monitor = <<0, 0, MaxW, MaxH>>
    /\ monMode = "win32"
    /\ FindIdle
    /\ CapIdle
    /\ WinIdle
    /\ ShotIdle
    /\ ToastIdle
    /\ AppIdle
    /\ NativeIdle
    /\ rectA \in IsectRects
    /\ rectB \in IsectRects
    /\ isectPc = "call"
    /\ isectRet = None

NextIntersect == intersect_rects_call

SpecIntersect == InitIntersect /\ [][NextIntersect]_vars

\* A call of capture_window_to_qimage on a window with any of the rectangles.
InitCapture ==
    /\ BarInit
    /\ monitor \in Monitors
    /\ monMode = "win32"
    /\ FindIdle
    /\ capPc = "call"
    /\ capRect \in CaptureRects
    /\ capHeld = {}
    /\ capPrintOk = FALSE
    /\ capDibOk = FALSE
    /\ capRaised = FALSE
    /\ capResult = "None"
    /\ WinIdle
    /\ ShotIdle
    /\ IsectIdle
    /\ ToastIdle
    /\ AppIdle
    /\ NativeIdle

NextCapture ==
    \/ capture_get_rect
    \/ capture_acquire
    \/ capture_render
    \/ capture_extract
    \/ capture_cleanup
    \/ capture_convert
    \/ capture_interrupted

SpecCapture == InitCapture /\ [][NextCapture]_vars

\* The display of a MainWindow and the width percentages its store may hold.
WinMonitors == { <<0, 0, 1920, 1080>>, <<0 - 1280, 0, 0, 1024>> }
StoredPercents == {0, 10, 20, 50}

\* A MainWindow as __init__ leaves it (lines 53-64, 80, 133-142), shown by
\* app.main when it starts docked (app.py, lines 65-66).
MainWindow_init ==
    /\ monitor \in WinMonitors
    /\ monMode = "win32"
    /\ cfgWidthPercent \in StoredPercents
    /\ screenWidth = Width(monitor)
    /\ desired_width = DesiredWidth(screenWidth, cfgWidthPercent)
    /\ edge_str \in {"left", "right"}
    /\ is_docked \in BOOLEAN
    /\ appbar = None
    /\ enforce_fixed_width = FALSE
    /\ startup = (IF is_docked THEN "_register_appbar" ELSE "_start_undocked")
    /\ qtGeometry = None
    /\ shown = is_docked
    /\ updatesEnabled = TRUE
    /\ maximized = FALSE
    /\ stack = <<>>
    /\ handler = "__init__"
    /\ raised = ""
    /\ closed = FALSE
    /\ engineState = "pending"
    /\ loadConnected = FALSE
    /\ pendingEnforce = 0
    /\ winRect = <<0, 0, 1, 1>>
    /\ shellRegistered = FALSE
    /\ msgs = <<>>
    /\ proposed = None
    /\ queried = None
    /\ applied = None
    /\ lastOp = "init"
    /\ lastArgs = None
    /\ ret = None
    /\ FindIdle
    /\ CapIdle
    /\ ShotIdle
    /\ IsectIdle
    /\ ToastIdle

\* A MainWindow of a program started without --width.
InitWin ==
    /\ MainWindow_init
    /\ AppIdle
    /\ NativeIdle

NextWin ==
    \/ register_appbar
    \/ start_undocked
    \/ init_web_engine
    \/ init_web_engine_resume
    \/ \E ok \in BOOLEAN : on_page_load_finished(ok)
    \/ resizeEvent
    \/ enforce_appbar_size
    \/ on_toggle_side
    \/ on_toggle_side_resume
    \/ on_toggle_dock_undock
    \/ on_toggle_dock_redock
    \/ redock_resume
    \/ Maximize
    \/ \E is_callback_msg \in BOOLEAN, wParam \in NotificationCodes :
          nativeEvent(is_callback_msg, wParam)
    \/ closeEvent

SpecWin == InitWin /\ [][NextWin]_vars

\* The values --width is given on the command line.
CliWidths == {DEFAULT_WIDTH, 384, 300}

\* app.main: the MainWindow of a program started with --width, on the
\* 1920x1080 display, set to dock at the left edge with the default width
\* percentage stored.
InitApp ==
    /\ MainWindow_init
    /\ NativeIdle
    /\ argWidth \in CliWidths
    /\ monitor = <<0, 0, 1920, 1080>>
    /\ cfgWidthPercent = 20
    /\ edge_str = "left"

SpecApp == InitApp /\ [][NextWin]_vars

\* The rectangles of the other windows on the displays of a MainWindow.
ShotWindowRects == { <<500, 100, 900, 600>>, <<0 - 900, 100, 0 - 500, 600>> }

\* The desktops of a MainWindow taking screenshots: the first window in
\* EnumWindows' order is hidden, the others are visible, all with one rectangle.
ShotDesktops ==
    { [h \in Handles |-> [visible |-> (h # 1), rect |-> r]] : r \in ShotWindowRects }

\* A MainWindow as __init__ leaves it, on a desktop with other windows; the
\* foreground window is the sidebar itself or the hidden window.
InitShot ==
    /\ monitor \in WinMonitors
    /\ monMode = "win32"
    /\ cfgWidthPercent \in StoredPercents
    /\ screenWidth = Width(monitor)
    /\ desired_width = DesiredWidth(screenWidth, cfgWidthPercent)
    /\ edge_str \in {"left", "right"}
    /\ is_docked \in BOOLEAN
    /\ appbar = None
    /\ enforce_fixed_width = FALSE
    /\ startup = (IF is_docked THEN "_register_appbar" ELSE "_start_undocked")
    /\ qtGeometry = None
    /\ shown = is_docked
    /\ updatesEnabled = TRUE
    /\ maximized = FALSE
    /\ stack = <<>>
    /\ handler = "__init__"
    /\ raised = ""
    /\ closed = FALSE
    /\ engineState = "pending"
    /\ loadConnected = FALSE
    /\ pendingEnforce = 0
    /\ winRect = <<0, 0, 1, 1>>
    /\ shellRegistered = FALSE
    /\ msgs = <<>>
    /\ proposed = None
    /\ queried = None
    /\ applied = None
    /\ lastOp = "init"
    /\ lastArgs = None
    /\ ret = None
    /\ work_rect = SearchRectA
    /\ excluded_hwnds = {}
    /\ windows \in ShotDesktops
    /\ fg \in {1, OwnHwnd}
    /\ atpt = 0
    /\ findPc = "return"
    /\ found = 0
    /\ CapIdle
    /\ ShotIdle
    /\ IsectIdle
    /\ ToastIdle
    /\ AppIdle
    /\ NativeIdle

\* The handlers of a MainWindow taking screenshots. No event is dispatched
\* while capture_window_to_qimage runs.
NextShot ==
    \/ NotCapturing /\ register_appbar
    \/ NotCapturing /\ start_undocked
    \/ NotCapturing /\ init_web_engine
    \/ NotCapturing /\ init_web_engine_resume
    \/ NotCapturing /\ on_toggle_dock_undock
    \/ NotCapturing /\ on_toggle_dock_redock
    \/ NotCapturing /\ closeEvent
    \/ on_screenshot_to_chat
    \/ capture_get_rect
    \/ capture_acquire
    \/ capture_render
    \/ capture_extract
    \/ capture_cleanup
    \/ capture_convert
    \/ capture_interrupted
    \/ on_screenshot_to_chat_resume

SpecShot == InitShot /\ [][NextShot]_vars

\* The handlers of a MainWindow that show and hide the toast.
NextToast ==
    \/ NotCapturing /\ register_appbar
    \/ NotCapturing /\ start_undocked
    \/ NotCapturing /\ init_web_engine
    \/ NotCapturing /\ init_web_engine_resume
    \/ NotCapturing /\ on_toggle_dock_undock
    \/ NotCapturing /\ on_toggle_dock_redock
    \/ NotCapturing /\ closeEvent
    \/ on_screenshot_to_chat
    \/ capture_get_rect
    \/ capture_acquire
    \/ capture_render
    \/ capture_extract
    \/ capture_cleanup
    \/ capture_convert
    \/ capture_interrupted
    \/ on_screenshot_to_chat_resume
    \/ hide_toast
    \/ \E ok \in BOOLEAN : after_paste_result(ok)
    \/ \E autostart_fails \in BOOLEAN : on_settings_changed_apply(autostart_fails)
    \/ \E cookies_raise \in BOOLEAN : on_settings_changed_sign_out(cookies_raise)

\* A MainWindow with the default width percentage, on the 1920x1080 display,
\* set to dock at the left edge.
InitToast ==
    /\ InitShot
    /\ monitor = <<0, 0, 1920, 1080>>
    /\ cfgWidthPercent = 20
    /\ edge_str = "left"

SpecToast == InitToast /\ [][NextToast]_vars

\* ------------------------------- main of the single-file program, --native-app

\* The rectangles of the ChatGPT app's window before it is docked.
ChatGPTRects == { <<500, 100, 900, 600>>, <<100, 100, 400, 300>> }

\* bar.frameGeometry() of a docked bar on the 1920x1080 display.
NativeBarRects == { <<0, 0, 420, 1080>>, <<1500, 0, 1920, 1080>>,
                    <<0, 0, 300, 1080>>, <<1620, 0, 1920, 1080>> }

\* find_chatgpt_hwnd(): the first window FindWindowW finds, or 0
find_chatgpt_hwnd == chatgptWindow

\* dock_existing, when its single-shot timer fires: it moves the ChatGPT
\* window over the bar when there is one, and starts another timer for
\* itself when there is none.
dock_existing ==
    /\ dockPending
    /\ dockAttempts' = Min(dockAttempts + 1, MaxAttempts)
    /\ IF find_chatgpt_hwnd # 0
       THEN /\ chatgptRect' = Some(winRect)
            /\ chatgpt_hwnd' = find_chatgpt_hwnd
            /\ dockPending' = FALSE
       ELSE /\ dockPending' = TRUE
            /\ UNCHANGED <<chatgpt_hwnd, chatgptRect>>
    /\ handler' = "dock_existing"
    /\ UNCHANGED chatgptWindow
    /\ UNCHANGED <<cfgWidthPercent, screenWidth, is_docked, edge_str, desired_width,
                   enforce_fixed_width, startup, qtGeometry, shown, updatesEnabled,
                   maximized, stack, raised, closed, engineState, loadConnected,
                   pendingEnforce>>
    /\ UNCHANGED <<barVars, findVars, capVars, shotVars, isectVars, toastVars, appVars>>

\* The user starts the ChatGPT app.
ChatGPTOpens ==
    /\ chatgptWindow = 0
    /\ chatgpt_hwnd = 0
    /\ chatgptWindow' \in Handles
    /\ chatgptRect' \in { Some(r) : r \in ChatGPTRects }
    /\ handler' = "none"
    /\ UNCHANGED <<dockPending, dockAttempts, chatgpt_hwnd>>
    /\ UNCHANGED <<cfgWidthPercent, screenWidth, is_docked, edge_str, desired_width,
                   enforce_fixed_width, startup, qtGeometry, shown, updatesEnabled,
                   maximized, stack, raised, closed, engineState, loadConnected,
                   pendingEnforce>>
    /\ UNCHANGED <<barVars, findVars, capVars, shotVars, isectVars, toastVars, appVars>>

\* main with --native-app: a bar that starts docked is
\* shown and the first timer for dock_existing is started; a bar that starts
\* undocked gets no timer.
InitNative ==
    /\ is_docked \in BOOLEAN
    /\ appbar = None
    /\ winRect \in NativeBarRects
    /\ shellRegistered = is_docked
    /\ msgs = <<>>
    /\ proposed = None
    /\ queried = None
    /\ applied = None
    /\ lastOp = "init"
    /\ lastArgs = None
    /\ ret = None
    /\ monitor = <<0, 0, 1920, 1080>>
    /\ monMode = "win32"
    /\ FindIdle
    /\ CapIdle
    /\ ShotIdle
    /\ IsectIdle
    /\ ToastIdle
    /\ argWidth \in CliWidths
    /\ cfgWidthPercent = 20
    /\ screenWidth = 1920
    /\ edge_str = "left"
    /\ desired_width = argWidth
    /\ enforce_fixed_width = FALSE
    /\ startup = "done"
    /\ qtGeometry = None
    /\ shown = is_docked
    /\ updatesEnabled = TRUE
    /\ maximized = FALSE
    /\ stack = <<>>
    /\ handler = "main"
    /\ raised = ""
    /\ closed = FALSE
    /\ engineState = "done"
    /\ loadConnected = FALSE
    /\ pendingEnforce = 0
    /\ dockPending = is_docked
    /\ dockAttempts = 0
    /\ chatgptWindow = 0
    /\ chatgpt_hwnd = 0
    /\ chatgptRect = None

NextNative ==
    \/ dock_existing
    \/ ChatGPTOpens

SpecNative == InitNative /\ [][NextNative]_vars

\* --------------------------------------------------------------- claims

\* The rectangle a bar of width w occupies at an edge of monitor rectangle mon.
DockedRect(e, w, mon) ==
    IF e = LEFT THEN <<mon[1], mon[2], mon[1] + w, mon[4]>>
    ELSE <<mon[3] - w, mon[2], mon[3], mon[4]>>

\* C1: after dock('left', w) with 1 <= w <= monitor width, whatever rectangle
\* the shell handed back from ABM_QUERYPOS, the rectangle sent with ABM_SETPOS
\* and applied to the window is w wide and as high as the monitor; after
\* dock('right', w) its right edge is the monitor's right edge.
C1_DockRect ==
    (lastOp = "dock" /\ lastArgs[2] \in 1..Width(get_monitor_rect)) =>
        /\ winRect = applied
        /\ lastArgs[1] = "left" =>
              /\ applied[3] - applied[1] = lastArgs[2]
              /\ applied[4] - applied[2] = Height(get_monitor_rect)
        /\ lastArgs[1] = "right" => applied[3] = get_monitor_rect[3]

\* C1 witness: a left dock on a monitor away from the origin whose proposal
\* the shell moved and cut, and which was applied with the asked width.
C1_Witness ==
    /\ lastOp = "dock"
    /\ lastArgs = <<"left", 2>>
    /\ monMode = "win32"
    /\ monitor[1] < 0
    /\ queried[1] # proposed[1]
    /\ queried[4] # proposed[4]
    /\ Width(winRect) = 2

\* C2: right after dock('left', w) get_opposite_work_area() returns
\* (docked.right, monitor.top, monitor.right, monitor.bottom), right after
\* dock('right', w) it returns (monitor.left, monitor.top, docked.left,
\* monitor.bottom); on monitor (0,0,1920,1080) dock('left', 400) applies
\* (0,0,400,1080) and the opposite area is (400,0,1920,1080).
C2_OppositeWorkArea ==
    (lastArgs # None) =>
        LET mon == get_monitor_rect
        IN  /\ (lastOp = "get_opposite_work_area" /\ lastArgs[1] = "left") =>
                  ret = <<applied[3], mon[2], mon[3], mon[4]>>
            /\ (lastOp = "get_opposite_work_area" /\ lastArgs[1] = "right") =>
                  ret = <<mon[1], mon[2], applied[1], mon[4]>>
            /\ (monMode = "win32" /\ monitor = <<0, 0, 1920, 1080>>
                    /\ lastArgs = <<"left", 400>>) =>
                  /\ applied = <<0, 0, 400, 1080>>
                  /\ lastOp = "get_opposite_work_area" => ret = <<400, 0, 1920, 1080>>

\* C2 witness: the end-to-end case of the spec, after both calls.
C2_Witness ==
    /\ lastOp = "get_opposite_work_area"
    /\ lastArgs = <<"left", 400>>
    /\ monMode = "win32"
    /\ monitor = <<0, 0, 1920, 1080>>
    /\ ret = <<400, 0, 1920, 1080>>

\* C5: a dock call on a registered AppBarWin sends no ABM_NEW: it sends
\* ABM_QUERYPOS and ABM_SETPOS for the new edge and width, moves the window
\* there, and leaves registered true.
C5_DockIdempotent ==
    [][ (lastOp' = "dock" /\ The(appbar).registered) =>
            /\ msgs' = <<"QUERYPOS", "SETPOS">>
            /\ The(appbar').registered
            /\ shellRegistered' = shellRegistered
            /\ The(appbar').edge = (IF lastArgs'[1] = "right" THEN RIGHT ELSE LEFT)
            /\ The(appbar').width = lastArgs'[2]
            /\ applied' = DockedRect(The(appbar').edge, lastArgs'[2], get_monitor_rect)
            /\ winRect' = applied' ]_vars

\* C5 witness: a dock call that sent no ABM_NEW and moved the bar to the right edge.
C5_Witness ==
    /\ lastOp = "dock"
    /\ msgs = <<"QUERYPOS", "SETPOS">>
    /\ lastArgs[1] = "right"
    /\ The(appbar).registered
    /\ winRect[3] = get_monitor_rect[3]

\* C6: undock on a registered AppBarWin sends exactly one ABM_REMOVE and sets
\* registered to false; undock on an unregistered one sends nothing and
\* changes nothing, so repeated undock calls are no-ops.
C6_Undock ==
    [][ lastOp' = "undock" =>
            IF The(appbar).registered
            THEN /\ msgs' = <<"REMOVE">>
                 /\ ~The(appbar').registered
                 /\ ~shellRegistered'
            ELSE /\ msgs' = <<>>
                 /\ appbar' = appbar
                 /\ shellRegistered' = shellRegistered
                 /\ winRect' = winRect ]_vars

\* C6 witness: an undock call that did nothing, on a bar that had been docked
\* and undocked before.
C6_Witness ==
    /\ lastOp = "undock"
    /\ msgs = <<>>
    /\ ~The(appbar).registered
    /\ The(appbar).width # DEFAULT_INIT_WIDTH
    /\ ~shellRegistered

\* C7: reposition changes neither registered nor the edge nor the width and
\* sends neither ABM_NEW nor ABM_REMOVE; on a registered bar it sends
\* ABM_QUERYPOS and ABM_SETPOS for the current edge and width on the current
\* monitor and moves the window to that rectangle.
C7_Reposition ==
    [][ lastOp' = "reposition" =>
            /\ appbar' = appbar
            /\ shellRegistered' = shellRegistered
            /\ \A i \in 1..Len(msgs') : msgs'[i] \notin {"NEW", "REMOVE"}
            /\ The(appbar).registered =>
                  /\ msgs' = <<"QUERYPOS", "SETPOS">>
                  /\ applied' = DockedRect(The(appbar).edge, The(appbar).width,
                                           get_monitor_rect)
                  /\ winRect' = applied' ]_vars

\* C7 witness: a reposition that moved the window of a right-docked bar.
C7_Witness ==
    /\ lastOp = "reposition"
    /\ msgs = <<"QUERYPOS", "SETPOS">>
    /\ The(appbar).edge = RIGHT
    /\ The(appbar).width = 3
    /\ winRect = applied
    /\ queried # proposed

\* The pixels of a rectangle; two rectangles intersect when they share one.
Pixels(r) == (r[1]..(r[3] - 1)) \X (r[2]..(r[4] - 1))
Intersecting(a, b) == Pixels(a) \cap Pixels(b) # {}

\* A window qualifies when it is not excluded, is visible and has bounds
\* intersecting the searched rectangle.
Qualifies(h) ==
    /\ h \in Handles
    /\ h \notin excluded_hwnds
    /\ windows[h].visible
    /\ Intersecting(windows[h].rect, work_rect)

\* C8: find_visible_window_in_rect returns the foreground window if it
\* qualifies, else the window at the centre point if it qualifies, else the
\* first qualifying window in enumeration order; with neither of the first two
\* qualifying and W1 excluded and intersecting, W2 visible and apart, W3
\* visible and intersecting, it returns W3.
C8_FindOrder ==
    findPc = "return" =>
        /\ Qualifies(fg) => found = fg
        /\ (~Qualifies(fg) /\ Qualifies(atpt)) => found = atpt
        /\ (~Qualifies(fg) /\ ~Qualifies(atpt)) =>
              \A i \in 1..NumWindows :
                  (Qualifies(EnumOrder[i]) /\ \A j \in 1..(i - 1) : ~Qualifies(EnumOrder[j]))
                      => found = EnumOrder[i]
        /\ ( /\ ~Qualifies(fg) /\ ~Qualifies(atpt)
             /\ 1 \in excluded_hwnds /\ Intersecting(windows[1].rect, work_rect)
             /\ windows[2].visible /\ ~Intersecting(windows[2].rect, work_rect)
             /\ windows[3].visible /\ Intersecting(windows[3].rect, work_rect)
             /\ 3 \notin excluded_hwnds ) => found = 3

\* C8 witness: the spec's enumeration, with a foreground window that is
\* excluded and a window at the centre point that is apart from the rectangle.
C8_Witness ==
    /\ findPc = "return"
    /\ fg = 1 /\ atpt = 2 /\ ~Qualifies(fg) /\ ~Qualifies(atpt)
    /\ 1 \in excluded_hwnds /\ Intersecting(windows[1].rect, work_rect)
    /\ windows[1].visible
    /\ windows[2].visible /\ ~Intersecting(windows[2].rect, work_rect)
    /\ windows[3].visible /\ Intersecting(windows[3].rect, work_rect)
    /\ found = 3

\* C9: find_visible_window_in_rect returns 0 when no visible, non-excluded
\* top-level window intersects the rectangle, and a non-zero handle whenever
\* an enumerated window is visible, not excluded and intersecting.
C9_FindNone ==
    findPc = "return" =>
        /\ (\A h \in Handles : ~Qualifies(h)) => found = 0
        /\ (\E i \in 1..NumWindows : Qualifies(EnumOrder[i])) => found # 0

\* C9 witness: a search that returned 0 although a hidden window and an
\* excluded window intersect the rectangle and the foreground window is visible.
C9_Witness ==
    /\ findPc = "return"
    /\ found = 0
    /\ fg # 0 /\ windows[fg].visible /\ fg \notin excluded_hwnds
    /\ \E h \in Handles : ~windows[h].visible /\ Intersecting(windows[h].rect, work_rect)
                            /\ h \notin excluded_hwnds
    /\ \E h \in Handles : windows[h].visible /\ Intersecting(windows[h].rect, work_rect)
                            /\ h \in excluded_hwnds

\* C10: when capture_window_to_qimage returns, by whatever path, every
\* device context and bitmap it acquired has been released.
C10_AllReleased == capPc = "return" => capHeld = {}

\* C3: the handlers that dock or reposition and then read get_last_rect
\* (_register_appbar, on_toggle_side, _enforce_appbar_size) get the rectangle
\* just applied to the window, set the Qt geometry from it and run to completion.
C3_GetLastRect ==
    (handler \in {"_register_appbar", "on_toggle_side", "_enforce_appbar_size"}
        /\ applied # None) =>
            /\ raised = ""
            /\ qtGeometry # None
            /\ qtGeometry[1] = applied[1]
            /\ qtGeometry[2] = applied[2]

\* C4: every rectangle sent with ABM_QUERYPOS or ABM_SETPOS has a positive
\* width, for any stored width percentage and any screen width.
C4_PositiveWidth ==
    /\ proposed # None => proposed[3] - proposed[1] > 0
    /\ applied # None => applied[3] - applied[1] > 0

\* C11: the window is hidden only while capture_window_to_qimage runs, and
\* when on_screenshot_to_chat is over, by a return or by an exception out of
\* the capture, every hide_window call has been followed by a show_window call.
C11_HideShow ==
    /\ hidden => shotPc = "capturing"
    /\ shotPc = "capturing" => shotCalls = <<"hide">>
    /\ shotPc = "done" => /\ ~hidden
                          /\ shotCalls \in {<<>>, <<"hide", "show">>}

\* C11 witness: a request whose capture raised, with the window shown again.
C11_Witness ==
    /\ shotPc = "done"
    /\ capResult = "raise"
    /\ raised = "BaseException"
    /\ shotCalls = <<"hide", "show">>
    /\ ~hidden

\* C12: the rectangle a screenshot request passes to the window search is the
\* part of the monitor the bar leaves free: it does not overlap the bar's
\* rectangle and it is not the full monitor rectangle.
C12_SearchRect ==
    (handler = "on_screenshot_to_chat" /\ lastOp = "get_opposite_work_area") =>
        /\ intersect_rects(work_rect, winRect) = None
        /\ work_rect # get_monitor_rect

\* C13: capture_window_to_qimage on a window whose bounds give width <= 0 or
\* height <= 0 returns None without acquiring a device context or a bitmap.
C13_Degenerate ==
    (capRect[3] - capRect[1] <= 0 \/ capRect[4] - capRect[2] <= 0) =>
        /\ capPc \in {"call", "return"}
        /\ capHeld = {}
        /\ capPc = "return" => (capResult = "None" /\ ~capRaised)

\* C13 witness: the call returned for a window with a width and no height.
C13_Witness ==
    /\ capPc = "return"
    /\ capRect[3] - capRect[1] > 0
    /\ capRect[4] - capRect[2] = 0
    /\ capResult = "None"
    /\ capHeld = {}

\* C14: when GetDIBits did not copy the pixels, capture_window_to_qimage
\* returns None, the request shows the capture-failure toast and no image is
\* encoded or pasted.
C14_ExtractionFailure ==
    (shotPc = "done" /\ shotCalls # <<>> /\ capPc = "return"
        /\ capRect[3] - capRect[1] > 0 /\ capRect[4] - capRect[2] > 0
        /\ capResult # "raise" /\ ~capRaised /\ ~capDibOk) =>
            /\ capResult = "None"
            /\ toast = ToastCaptureFailed
            /\ ~encoded
            /\ ~pasted

\* C15: registered is true only when the shell's ABM_NEW call registered the
\* window: after a registration call that failed the controller is not docked.
C15_RegisteredOnlyOnSuccess ==
    (appbar # None /\ AppBarWin_is_docked(The(appbar))) => shellRegistered

C18_NativeEvent ==
    [][ handler' = "nativeEvent" =>
          \A cb \in BOOLEAN, wp \in NotificationCodes :
              nativeEvent(cb, wp) =>
                  /\ lastOp' = "reposition" <=>
                        (is_docked /\ appbar # None /\ cb /\ wp = POSCHANGED)
                  /\ lastOp' = "reposition" => msgs' = <<"QUERYPOS", "SETPOS">>
                  /\ lastOp' # "reposition" =>
                        /\ msgs' = <<>>
                        /\ UNCHANGED <<appbar, winRect, shellRegistered>> ]_vars

\* C18 witness: a POSCHANGED notification repositioned a docked window.
C18_Witness ==
    /\ handler = "nativeEvent"
    /\ lastOp = "reposition"
    /\ is_docked
    /\ msgs = <<"QUERYPOS", "SETPOS">>
    /\ winRect = applied

\* C19: the rectangle sent with ABM_SETPOS has the target width and the full
\* monitor height and is anchored at the position ABM_QUERYPOS returned.
C19_KeepsShellPosition ==
    (applied # None /\ appbar # None) =>
        /\ Width(applied) = The(appbar).width
        /\ applied[2] = get_monitor_rect[2]
        /\ applied[4] = get_monitor_rect[4]
        /\ The(appbar).edge = LEFT => applied[1] = queried[1]
        /\ The(appbar).edge = RIGHT => applied[3] = queried[3]

\* C20: when the primary display's geometry is used, the docked rectangle is
\* as high as the display, and a right-docked bar's right edge is the
\* display's left plus its width.
C20_QtFallback ==
    (monMode = "qt" /\ applied # None /\ appbar # None) =>
        /\ Height(applied) = Height(monitor)
        /\ The(appbar).edge = RIGHT => applied[3] = monitor[1] + Width(monitor)

\* The rectangle the lookups of _get_monitor_rect yield on the display as it
\* is: the monitor's, else the one spanned by the left, top, right and bottom
\* of the primary screen's geometry, else (0, 0, 1920, 1080).
C21_Expected ==
    CASE monMode = "win32" -> monitor
      [] monMode = "qt" -> <<monitor[1], monitor[2],
                             monitor[1] + (monitor[3] - monitor[1]) - 1,
                             monitor[2] + (monitor[4] - monitor[2]) - 1>>
      [] OTHER -> <<0, 0, 1920, 1080>>

C22_RedockSameRect ==
    [][ (/\ lastOp = "undock"
         /\ msgs = <<"REMOVE">>
         /\ lastOp' = "dock"
         /\ EdgeOf(lastArgs'[1]) = The(appbar).edge
         /\ lastArgs'[2] = The(appbar).width) =>
            /\ applied' = winRect
            /\ winRect' = winRect
            /\ msgs' = <<"NEW", "QUERYPOS", "SETPOS">> ]_vars

\* C22 witness: a bar docked at the right edge was undocked and docked again
\* with the same edge and width, although the shell answered ABM_QUERYPOS
\* with a moved and cut rectangle.
C22_Witness ==
    /\ lastOp = "dock"
    /\ lastArgs = <<"right", 3>>
    /\ msgs = <<"NEW", "QUERYPOS", "SETPOS">>
    /\ queried[1] # proposed[1]
    /\ queried[4] # proposed[4]
    /\ winRect = applied
    /\ shellRegistered

\* The pair of conditions _intersect_rects is specified by, for the call made:
\* apart's rectangles share no pixel, and the overlap is the rectangle of the
\* larger lefts and tops and the smaller rights and bottoms.
C23_Disjoint == Pixels(rectA) \cap Pixels(rectB) = {}
C23_Overlap ==
    <<Max(rectA[1], rectB[1]), Max(rectA[2], rectB[2]),
      Min(rectA[3], rectB[3]), Min(rectA[4], rectB[4])>>

\* C23 as stated: _intersect_rects(a, b) is None for disjoint rectangles, the
\* input for identical rectangles, and (max of the lefts, max of the tops, min
\* of the rights, min of the bottoms) for overlapping ones.
C23_AsStated ==
    isectPc = "return" =>
        /\ C23_Disjoint /\ rectA # rectB => isectRet = None
        /\ rectA = rectB => isectRet = rectA
        /\ ~C23_Disjoint => isectRet = C23_Overlap

\* C23 amended: _intersect_rects(a, b) is None for disjoint rectangles, the
\* input for identical rectangles of positive width and height, and (max of
\* the lefts, max of the tops, min of the rights, min of the bottoms) for
\* overlapping ones.
C23_Intersect ==
    isectPc = "return" =>
        /\ C23_Disjoint => isectRet = None
        /\ (rectA = rectB /\ Width(rectA) > 0 /\ Height(rectA) > 0) => isectRet = rectA
        /\ ~C23_Disjoint => isectRet = C23_Overlap

\* C23 witness: two rectangles that overlap in one pixel were intersected.
C23_Witness ==
    /\ isectPc = "return"
    /\ rectA = <<0, 0, 2, 2>>
    /\ rectB = <<1, 1, 3, 3>>
    /\ isectRet = <<1, 1, 2, 2>>

\* C24: every failure path of MainWindow ends with the toast label shown and
\* the single-shot timer running, the timer's firing removes the label, and
\* no handler leaves MainWindow without having shown the toast.
C24_FailureToast ==
    /\ lastFailure \in FailurePaths =>
          /\ toastLabel # None
          /\ toastTimer > 0
    /\ toastLabel # None => toastTimer > 0
    /\ handler = "_hide_toast" => toastLabel = None

\* C25: _after_paste_result(False) shows the paste-failure toast, which is
\* none of the capture-failure toasts, _after_paste_result(True) shows the
\* success toast; neither evaluates the script again nor starts a capture,
\* and no screenshot request evaluates the paste script more than once.
C25_PasteResult ==
    [][ /\ scriptRuns' <= 1
        /\ handler' = "_after_paste_result" =>
              /\ \A ok \in BOOLEAN :
                    after_paste_result(ok) =>
                        /\ toastLabel' = Some(IF ok THEN ToastAttached ELSE ToastPasteFailed)
                        /\ toastTimer' > 0
              /\ The(toastLabel') \notin {ToastNotDocked, ToastNoWindow,
                                          ToastCaptureFailed, ToastFailed}
              /\ scriptRuns' = scriptRuns
              /\ pastePending' = pastePending - 1
              /\ UNCHANGED <<capVars, shotVars>> ]_vars

\* C25 witness: the page reported that the paste failed, the paste-failure
\* toast is shown, and the request's script was evaluated once.
C25_Witness ==
    /\ handler = "_after_paste_result"
    /\ toastLabel = Some(ToastPasteFailed)
    /\ toastTimer = TOAST_DURATION_MS
    /\ scriptRuns = 1
    /\ pastePending = 0
    /\ encoded
    /\ pasted

\* C26: the width AppBarWin.dock is called with at startup is the value of
\* --width.
C26_CliWidth ==
    (handler = "_register_appbar" /\ lastOp = "dock") =>
        /\ lastArgs[2] = argWidth
        /\ The(appbar).width = argWidth

\* C27: ABM_NEW is never sent for the window while the shell still holds the
\* registration of an earlier ABM_NEW, and no registered AppBarWin is dropped
\* or replaced without ABM_REMOVE having been sent for it.
C27_OneRegistration ==
    [][ /\ (msgs' # <<>> /\ msgs'[1] = "NEW") => ~shellRegistered
        /\ (/\ appbar # None
            /\ The(appbar).registered
            /\ (appbar' = None \/ (msgs' # <<>> /\ msgs'[1] = "NEW"))) =>
              (msgs' # <<>> /\ msgs'[1] = "REMOVE") ]_vars

\* C28: between the startup registration and the close of the window,
\* whenever an event can be dispatched, is_docked is true exactly when
\* self.appbar is a registered AppBarWin.
C28_DockedIffRegistered ==
    (startup = "done" /\ ~closed) =>
        (is_docked <=> (appbar # None /\ The(appbar).registered))

\* C29: when the window is undocked, a firing _enforce_appbar_size timer, a
\* loadFinished signal and an AppBar notification send no AppBar message, do
\* not move the window and leave is_docked, the AppBarWin and the shell's
\* registration as they are.
C29_LateCallbacks ==
    [][ (/\ handler' \in {"_enforce_appbar_size", "_on_page_load_finished", "nativeEvent"}
         /\ (~is_docked \/ appbar = None \/ ~The(appbar).registered)) =>
            /\ msgs' = <<>>
            /\ applied' = None
            /\ UNCHANGED <<winRect, qtGeometry, is_docked, appbar, shellRegistered>> ]_vars

\* C29 witness: the window was docked and then undocked, and a timer for
\* _enforce_appbar_size that was still pending fired and did nothing.
C29_Witness ==
    /\ handler = "_enforce_appbar_size"
    /\ ~is_docked
    /\ appbar = None
    /\ winRect = UndockedRect
    /\ engineState = "done"
    /\ msgs = <<>>
    /\ raised = ""

\* C30: dock_existing reschedules itself a bounded number of times: once it
\* has been called MaxAttempts times no timer for it is pending, whether or
\* not the ChatGPT window was found.
C30_BoundedRetries ==
    dockAttempts >= MaxAttempts => ~dockPending

====
